---- MODULE Spec2Model ----
(***************************************************************************)
(* Cultivation progression engine of HeavenAndEarth                        *)
(* (src/heaven_and_earth/models.py), the tick orchestrator of              *)
(* PlayerService and the scheduling of HeavenAndEarthBot (src/bot.py).     *)
(*                                                                         *)
(* Python floats are IEEE-754 binary64.  The engine's float fields         *)
(* (foundation_progress, tick_buffer, time_flow, the breakthrough chance)  *)
(* are modelled bit-exactly: a float is a non-negative dyadic rational     *)
(* m * 2^e whose odd mantissa m has at most PREC bits, and every float     *)
(* operation is the exact operation followed by round-to-nearest-even.     *)
(* TLC's integers are 32 bits wide, so mantissas are little-endian         *)
(* sequences of limbs in base LIMB.  exp and cultivation_rate only ever    *)
(* hold integral values far below 2^53 and are modelled as integers.       *)
(***************************************************************************)
EXTENDS Integers, Sequences, FiniteSets, TLC

(***************************************************************************)
(* Arbitrary-precision naturals: <<>> is 0, a = Head(a) + LIMB * Tail(a).  *)
(***************************************************************************)
LimbBits == 14

LIMB == 2 ^ LimbBits

RECURSIVE BigNorm(_)
BigNorm(a) ==
    IF a = <<>> THEN <<>>
    ELSE IF a[Len(a)] = 0 THEN BigNorm(SubSeq(a, 1, Len(a) - 1))
    ELSE a

RECURSIVE BigFromNat(_)
BigFromNat(n) ==
    IF n = 0 THEN <<>> ELSE <<n % LIMB>> \o BigFromNat(n \div LIMB)

RECURSIVE BigToNat(_)
BigToNat(a) ==
    IF a = <<>> THEN 0 ELSE Head(a) + LIMB * BigToNat(Tail(a))

RECURSIVE BigAddC(_, _, _)
BigAddC(a, b, c) ==
    IF a = <<>> /\ b = <<>> THEN BigFromNat(c)
    ELSE LET x == (IF a = <<>> THEN 0 ELSE Head(a))
                  + (IF b = <<>> THEN 0 ELSE Head(b)) + c
         IN  <<x % LIMB>> \o BigAddC(IF a = <<>> THEN <<>> ELSE Tail(a),
                                     IF b = <<>> THEN <<>> ELSE Tail(b),
                                     x \div LIMB)

BigAdd(a, b) == BigAddC(a, b, 0)

\* a - b - c for a >= b + c, limb by limb with borrow c.
RECURSIVE BigSubB(_, _, _)
BigSubB(a, b, c) ==
    IF a = <<>> THEN <<>>
    ELSE LET x == Head(a) - (IF b = <<>> THEN 0 ELSE Head(b)) - c
         IN  <<x % LIMB>> \o BigSubB(Tail(a),
                                     IF b = <<>> THEN <<>> ELSE Tail(b),
                                     IF x < 0 THEN 1 ELSE 0)

BigSub(a, b) == BigNorm(BigSubB(a, b, 0))

\* -1, 0, 1 as a < b, a = b, a > b (both normalised).
RECURSIVE BigCmp(_, _)
BigCmp(a, b) ==
    IF Len(a) # Len(b) THEN (IF Len(a) < Len(b) THEN -1 ELSE 1)
    ELSE IF a = <<>> THEN 0
    ELSE IF a[Len(a)] # b[Len(b)] THEN (IF a[Len(a)] < b[Len(b)] THEN -1 ELSE 1)
    ELSE BigCmp(SubSeq(a, 1, Len(a) - 1), SubSeq(b, 1, Len(b) - 1))

\* a * n + c for a small n (n <= 2^16).
RECURSIVE BigMulSmall(_, _, _)
BigMulSmall(a, n, c) ==
    IF a = <<>> THEN BigFromNat(c)
    ELSE LET x == Head(a) * n + c
         IN  <<x % LIMB>> \o BigMulSmall(Tail(a), n, x \div LIMB)

RECURSIVE BigMul(_, _)
BigMul(a, b) ==
    IF a = <<>> \/ b = <<>> THEN <<>>
    ELSE BigNorm(BigAdd(BigMulSmall(a, Head(b), 0), <<0>> \o BigMul(a, Tail(b))))

\* Quotient and remainder of a by a small d (d <= 2^16).
RECURSIVE BigDivRem(_, _)
BigDivRem(a, d) ==
    IF a = <<>> THEN [q |-> <<>>, r |-> 0]
    ELSE LET hi  == BigDivRem(Tail(a), d)
             cur == hi.r * LIMB + Head(a)
         IN  [q |-> BigNorm(<<cur \div d>> \o hi.q), r |-> cur % d]

\* a * 2^k
RECURSIVE BigShl(_, _)
BigShl(a, k) ==
    IF a = <<>> THEN <<>>
    ELSE IF k >= LimbBits THEN <<0>> \o BigShl(a, k - LimbBits)
    ELSE BigMulSmall(a, 2 ^ k, 0)

\* floor(a / 2^k)
RECURSIVE BigShr(_, _)
BigShr(a, k) ==
    IF a = <<>> THEN <<>>
    ELSE IF k >= LimbBits THEN BigShr(Tail(a), k - LimbBits)
    ELSE BigDivRem(a, 2 ^ k).q

RECURSIVE NatBitLen(_)
NatBitLen(n) == IF n = 0 THEN 0 ELSE 1 + NatBitLen(n \div 2)

BigBitLen(a) ==
    IF a = <<>> THEN 0 ELSE LimbBits * (Len(a) - 1) + NatBitLen(a[Len(a)])

RECURSIVE NatTrailingZeros(_)
NatTrailingZeros(n) == IF n % 2 = 1 THEN 0 ELSE 1 + NatTrailingZeros(n \div 2)

(***************************************************************************)
(* Dyadic rationals m * 2^e in canonical form (m odd, or m = 0 and e = 0), *)
(* so that equal values are equal records.                                 *)
(***************************************************************************)
DZero == [m |-> <<>>, e |-> 0]

RECURSIVE Canon(_, _)
Canon(m, e) ==
    IF m = <<>> THEN DZero
    ELSE IF Head(m) = 0 THEN Canon(Tail(m), e + LimbBits)
    ELSE LET tz == NatTrailingZeros(Head(m))
         IN  [m |-> BigShr(m, tz), e |-> e + tz]

DMin(a, b) == IF a < b THEN a ELSE b

\* Exact sum, difference (x >= y) and comparison of two dyadics.
ExactAdd(x, y) ==
    LET e == DMin(x.e, y.e)
    IN  Canon(BigAdd(BigShl(x.m, x.e - e), BigShl(y.m, y.e - e)), e)

ExactSub(x, y) ==
    LET e == DMin(x.e, y.e)
    IN  Canon(BigSub(BigShl(x.m, x.e - e), BigShl(y.m, y.e - e)), e)

ExactMul(x, y) == Canon(BigMul(x.m, y.m), x.e + y.e)

DCmp(x, y) ==
    LET e == DMin(x.e, y.e)
    IN  IF x = y THEN 0
        ELSE BigCmp(BigShl(x.m, x.e - e), BigShl(y.m, y.e - e))

DLt(x, y) == DCmp(x, y) < 0

DLe(x, y) == DCmp(x, y) <= 0

DFromNat(n) == Canon(BigFromNat(n), 0)

(***************************************************************************)
(* binary64 arithmetic: the exact result rounded to PREC significant bits, *)
(* ties to even.  The cultivation values stay far inside the exponent      *)
(* range; the product of two time flows need not (FMulUnderflow).          *)
(***************************************************************************)
PREC == 53

\* q is m without its k low bits, and c compares the bits dropped with half a
\* unit of q: round up when they are more, or half and q is odd.
RoundBig(m, e) ==
    LET decide(k, q, c) ==
            Canon(IF c > 0 \/ (c = 0 /\ Head(q) % 2 = 1) THEN BigAdd(q, <<1>>) ELSE q,
                  e + k)
        drop(k, q) == decide(k, q, BigCmp(BigSub(m, BigShl(q, k)), BigShl(<<1>>, k - 1)))
        fit(n) == IF n <= PREC THEN Canon(m, e) ELSE drop(n - PREC, BigShr(m, n - PREC))
    IN  fit(BigBitLen(m))

Round(x) == RoundBig(x.m, x.e)

FAdd(x, y) == Round(ExactAdd(x, y))

FSub(x, y) == Round(ExactSub(x, y))

FMul(x, y) == Round(ExactMul(x, y))

\* The time flows alone can be as small as a float gets.  Below
\* 2^MIN_NORMAL_EXP a binary64 is a multiple of 2^MIN_SUBNORMAL_EXP: the
\* exact value is rounded to such a multiple, ties to even, maybe to 0.
MIN_NORMAL_EXP == 0 - 1022

MIN_SUBNORMAL_EXP == 0 - 1074

RoundSubnormal(m, e) ==
    LET decide(k, q, c) ==
            Canon(IF c > 0 \/ (c = 0 /\ q # <<>> /\ Head(q) % 2 = 1)
                  THEN BigAdd(q, <<1>>) ELSE q,
                  e + k)
        drop(k, q) == decide(k, q, BigCmp(BigSub(m, BigShl(q, k)), BigShl(<<1>>, k - 1)))
    IN  IF e >= MIN_SUBNORMAL_EXP THEN Canon(m, e)
        ELSE drop(MIN_SUBNORMAL_EXP - e, BigShr(m, MIN_SUBNORMAL_EXP - e))

\* x * y with gradual underflow.
FMulUnderflow(x, y) ==
    LET round(p) ==
            IF p.m = <<>> THEN DZero
            ELSE IF p.e + BigBitLen(p.m) - 1 >= MIN_NORMAL_EXP THEN Round(p)
            ELSE RoundSubnormal(p.m, p.e)
    IN  round(ExactMul(x, y))

\* n / d for integers n >= 0, 0 < d <= 2^16, correctly rounded (Python's true
\* division of ints; also the value of a decimal literal n/d with d a power of 10).
FDivNat(n, d) ==
    LET sticky(s, qr) ==
            RoundBig(BigAddC(BigShl(qr.q, 1), <<>>, IF qr.r = 0 THEN 0 ELSE 1), 0 - s - 1)
        scaled(s) == sticky(s, BigDivRem(BigShl(BigFromNat(n), s), d))
    IN  scaled(PREC + 2 + NatBitLen(d))

\* int(x): truncation of a non-negative float to an integer.
FTrunc(x) ==
    IF x.e >= 0 THEN BigToNat(BigShl(x.m, x.e)) ELSE BigToNat(BigShr(x.m, 0 - x.e))

FMin(x, y) == IF DLt(y, x) THEN y ELSE x

FMax(x, y) == IF DLt(x, y) THEN y ELSE x

FOne == [m |-> <<1>>, e |-> 0]

(***************************************************************************)
(* The inputs the model draws from.                                        *)
(***************************************************************************)
\* Tick counts handed to add_exp: none, a thousand, more than the foundation
\* bar needs, and enough to cross the whole realm.
TickSet == {0, 1000, 5000, 200000}

\* Tick counts used while filling the foundation bar from empty.
FillTickSet == {0, 125, 850, 1825}

(***************************************************************************)
(* Enumerations and constants of models.py.                                *)
(***************************************************************************)
QI_CONDENSATION == "Qi Condensation"

FOUNDATION_ESTABLISHMENT == "Foundation Establishment"

REALM_ORDER == <<QI_CONDENSATION, FOUNDATION_ESTABLISHMENT>>

STAGE_ORDER == <<"Initial", "Early", "Middle", "Late", "Peak">>

\* list.index: the 0-based position of x in seq.
IndexOf(seq, x) == (CHOOSE i \in 1..Len(seq) : seq[i] = x) - 1

DAYS_PER_YEAR == 365

FOUNDATION_YEARS_TO_FILL == 5

FOUNDATION_FILL_TICKS == DAYS_PER_YEAR * FOUNDATION_YEARS_TO_FILL

SECONDS_PER_TICK == 60

max_qi_layers == 15

QiQualities ==
    <<"Faint", "Thin", "Steady", "Thick", "Condensed", "Highly Concentrated",
      "Superdense", "Extremely dense">>

\* The value of the member `order` of QiQuality (see order_index).
ORDER_VALUE ==
    "['Faint', 'Thin', 'Steady', 'Thick', 'Condensed', 'Highly Concentrated', 'Superdense', 'Extremely dense']"

\* QiQuality.qi_per_day: the rates table, 2^rank.
qi_per_day(q) == 2 ^ IndexOf(QiQualities, q)

QiTypes == {"Spiritual Qi", "Yin Qi", "Yang Qi"}

\* QiType.gathering_modifier is 1.0 for every type.
gathering_modifier(t) == 1

\* `order` in the body of the Enum class becomes a member whose value is the
\* str() of the list, so self.order.index(x) is str.index: the offset of the
\* first occurrence of x's value in
\* "['Faint', 'Thin', 'Steady', 'Thick', 'Condensed', 'Highly Concentrated',
\*   'Superdense', 'Extremely dense']".
order_index(q) ==
    CASE q = "Faint" -> 2
      [] q = "Thin" -> 11
      [] q = "Steady" -> 19
      [] q = "Thick" -> 29
      [] q = "Condensed" -> 38
      [] q = "Highly Concentrated" -> 51
      [] q = "Superdense" -> 74
      [] q = "Extremely dense" -> 88
      [] q = ORDER_VALUE -> 0

is_lower_than(q, other) == order_index(q) < order_index(other)

(***************************************************************************)
(* CultivationProgress.  A value c is the record of the dataclass fields;  *)
(* a mutating method is an operator from the object (and its inputs) to    *)
(* the object after the call and the value returned.                       *)
(***************************************************************************)
qi_gathering_rate(c) == qi_per_day(c.qi_quality) * gathering_modifier(c.qi_type)

refresh_cultivation_rate(c) == [c EXCEPT !.cultivation_rate = qi_gathering_rate(c)]

\* A faulty variant: from layer 6 on the quality is refined by one rank at
\* every layer.
upgrade_qi_quality_for_layer_next_rank(c) ==
    IF c.layer >= 6 /\ is_lower_than(c.qi_quality, QiQualities[Len(QiQualities)])
    THEN [c |-> [c EXCEPT !.qi_quality = QiQualities[IndexOf(QiQualities, c.qi_quality) + 2]],
          upgraded |-> TRUE]
    ELSE [c |-> c, upgraded |-> FALSE]

\* A faulty variant: the refinement waits for layer 7.
upgrade_qi_quality_for_layer_late(c) ==
    IF c.layer >= 7 /\ is_lower_than(c.qi_quality, "Thin")
    THEN [c |-> [c EXCEPT !.qi_quality = "Thin"], upgraded |-> TRUE]
    ELSE [c |-> c, upgraded |-> FALSE]

upgrade_qi_quality_for_layer(c) ==
    IF c.layer >= 6 /\ is_lower_than(c.qi_quality, "Thin")
    THEN [c |-> [c EXCEPT !.qi_quality = "Thin"], upgraded |-> TRUE]
    ELSE [c |-> c, upgraded |-> FALSE]

\* The dataclass defaults followed by __post_init__ (enum fields already valid).
post_init(c) ==
    LET l == [c EXCEPT !.layer = DMin(IF c.layer < 1 THEN 1 ELSE c.layer, max_qi_layers),
                       !.foundation_progress =
                            FMin(FMax(c.foundation_progress, DZero), FOne)]
    IN  refresh_cultivation_rate(upgrade_qi_quality_for_layer(l).c)

NewCultivation ==
    post_init([realm |-> QI_CONDENSATION, stage |-> "Initial", layer |-> 1, exp |-> 0,
               qi_type |-> "Spiritual Qi", qi_quality |-> "Faint",
               cultivation_rate |-> 1, foundation_progress |-> DZero])

(***************************************************************************)
(* __post_init__ on the values a players.toml can hold.  A persisted value *)
(* is [str |-> s], [int |-> n], [float |-> x, neg |-> b] for the float x   *)
(* or -x, or [special |-> "nan" | "inf" | "-inf"].  A conversion gives the *)
(* exception it raises ("" for none) and its value.                        *)
(***************************************************************************)
NaN == [special |-> "nan"]

Values(seq) == {seq[i] : i \in 1..Len(seq)}

\* Realm(s), Stage(s), QiType(s), QiQuality(s) under try / except ValueError:
\* the member with that value, else the fallback.
member_or(v, members, fallback) == IF v.str \in members THEN v.str ELSE fallback

\* int(v)
int_of(v) ==
    IF "int" \in DOMAIN v THEN [raised |-> "", v |-> v.int]
    ELSE IF "float" \in DOMAIN v
    THEN [raised |-> "", v |-> IF v.neg THEN 0 - FTrunc(v.float) ELSE FTrunc(v.float)]
    ELSE IF "str" \in DOMAIN v
    THEN IF v.str = "7" THEN [raised |-> "", v |-> 7] ELSE [raised |-> "ValueError", v |-> 0]
    ELSE IF v.special = "nan" THEN [raised |-> "ValueError", v |-> 0]
    ELSE [raised |-> "OverflowError", v |-> 0]

\* float(v)
float_of(v) ==
    IF "int" \in DOMAIN v
    THEN [raised |-> "", v |-> [float |-> DFromNat(IF v.int < 0 THEN 0 - v.int ELSE v.int),
                                neg |-> v.int < 0]]
    ELSE IF "str" \in DOMAIN v
    THEN IF v.str \in {"nan", "inf", "-inf"}
         THEN [raised |-> "", v |-> [special |-> v.str]]
         ELSE [raised |-> "ValueError", v |-> NaN]
    ELSE [raised |-> "", v |-> v]

\* min(max(f, 0.0), 1.0): max returns its first argument unless the second
\* is greater, min unless the second is less; no comparison with nan is true.
clamp_unit(f) ==
    IF "special" \in DOMAIN f
    THEN (IF f.special = "nan" THEN NaN ELSE IF f.special = "inf" THEN FOne ELSE DZero)
    ELSE IF f.neg THEN DZero
    ELSE FMin(FMax(f.float, DZero), FOne)

\* except (TypeError, ValueError): the fallback; any other exception leaves
\* __post_init__.
caught(r, fallback) == IF r.raised = "ValueError" THEN [raised |-> "", v |-> fallback] ELSE r

\* __post_init__ of the CultivationProgress built from data: the exception that leaves
\* it ("" for none) and the object, <<>> if there is none.
post_init_persisted(data) ==
    LET finish(c) ==
            IF c.qi_quality = ORDER_VALUE
            THEN [raised |-> "KeyError", c |-> <<>>]
            ELSE [raised |-> "", c |-> <<refresh_cultivation_rate(c)>>]
        build(layer, progress) ==
            IF layer.raised # "" THEN [raised |-> layer.raised, c |-> <<>>]
            ELSE finish(upgrade_qi_quality_for_layer(
                     [realm |-> member_or(data.realm, Values(REALM_ORDER), QI_CONDENSATION),
                      stage |-> member_or(data.stage, Values(STAGE_ORDER), "Initial"),
                      layer |-> IF layer.v < 1 THEN 1
                                ELSE IF layer.v > max_qi_layers THEN max_qi_layers
                                ELSE layer.v,
                      exp |-> data.exp,
                      qi_type |-> member_or(data.qi_type, QiTypes, "Spiritual Qi"),
                      qi_quality |-> member_or(data.qi_quality,
                                               Values(QiQualities) \cup {ORDER_VALUE}, "Faint"),
                      cultivation_rate |-> data.cultivation_rate,
                      foundation_progress |-> clamp_unit(progress.v)]).c)
    IN  build(caught(int_of(data.layer), 1),
              caught(float_of(data.foundation_progress), [float |-> DZero, neg |-> FALSE]))

\* The cultivation table tomli_w writes for an object.
persisted(c) ==
    [realm |-> [str |-> c.realm], stage |-> [str |-> c.stage], layer |-> [int |-> c.layer],
     exp |-> c.exp, qi_type |-> [str |-> c.qi_type], qi_quality |-> [str |-> c.qi_quality],
     cultivation_rate |-> c.cultivation_rate,
     foundation_progress |-> IF c.foundation_progress = NaN THEN NaN
                             ELSE [float |-> c.foundation_progress, neg |-> FALSE]]

\* A faulty variant: the layer multiplies the threshold in Qi Condensation only.
required_exp_first_realm_layers(c) ==
    LET base             == (IndexOf(REALM_ORDER, c.realm) + 1) * 100
        layer_multiplier == IF c.realm = QI_CONDENSATION /\ c.layer > 1 THEN c.layer ELSE 1
        stage_multiplier == IndexOf(STAGE_ORDER, c.stage) + 1
    IN  base * layer_multiplier * stage_multiplier

required_exp(c) ==
    LET base             == (IndexOf(REALM_ORDER, c.realm) + 1) * 100
        layer_multiplier == IF c.layer > 1 THEN c.layer ELSE 1
        stage_multiplier == IndexOf(STAGE_ORDER, c.stage) + 1
    IN  base * layer_multiplier * stage_multiplier

is_maxed_out(c) ==
    IF c.realm = REALM_ORDER[Len(REALM_ORDER)] THEN c.stage = "Peak" ELSE FALSE

\* A faulty variant: > in place of >=, so layer 15 is not the cap.
is_qi_condensation_cap_past_layers(c) ==
    c.realm = QI_CONDENSATION /\ c.layer > max_qi_layers /\ c.stage = "Peak"

is_qi_condensation_cap(c) ==
    c.realm = QI_CONDENSATION /\ c.layer >= max_qi_layers /\ c.stage = "Peak"

foundation_bar_active(c) == is_qi_condensation_cap(c)

\* stage_label(): the layer is part of the label only in Qi Condensation.
stage_label(c) ==
    IF c.realm = QI_CONDENSATION THEN <<c.stage, c.layer>> ELSE <<c.stage>>

\* A note is the message with its variable parts: kind names the sentence.
Note(kind, c) == [kind |-> kind, label |-> stage_label(c), realm |-> c.realm]

\* HeavenlyTribulation.resolve with the value random() returned.
DANGER == FDivNat(25, 100)

resolve(target_realm, danger, draw) ==
    IF DLt(draw, danger)
    THEN [kind |-> "tribulation close call", label |-> <<>>, realm |-> target_realm]
    ELSE [kind |-> "tribulation overcome", label |-> <<>>, realm |-> target_realm]

\* A faulty variant: a close call blocks the breakthrough.
breakthrough_realm_gated(c, draw) ==
    LET realm_index == IndexOf(REALM_ORDER, c.realm)
    IN  IF realm_index + 1 < Len(REALM_ORDER)
        THEN LET target == REALM_ORDER[realm_index + 2]
                 gate(note) == [c    |-> IF note.kind = "tribulation overcome"
                                         THEN [c EXCEPT !.realm = target,
                                                        !.stage = "Initial"]
                                         ELSE c,
                                note |-> note]
             IN  gate(resolve(target, DANGER, draw))
        ELSE LET d == [c EXCEPT !.stage = "Peak"]
             IN  [c |-> d, note |-> Note("pinnacle", d)]

breakthrough_realm(c, draw) ==
    LET realm_index == IndexOf(REALM_ORDER, c.realm)
    IN  IF realm_index + 1 < Len(REALM_ORDER)
        THEN LET target == REALM_ORDER[realm_index + 2]
             IN  [c    |-> [c EXCEPT !.realm = target, !.stage = "Initial"],
                  note |-> resolve(target, DANGER, draw)]
        ELSE LET d == [c EXCEPT !.stage = "Peak"]
             IN  [c |-> d, note |-> Note("pinnacle", d)]

\* A faulty variant: the quality is refined and the rate is left as it was.
handle_layer_advance_stale_rate(c) ==
    LET u == upgrade_qi_quality_for_layer(c)
    IN  IF u.upgraded
        THEN [c    |-> u.c,
              note |-> Note("advanced, qi refined", u.c)
                           @@ [qi_quality |-> u.c.qi_quality, qi_type |-> u.c.qi_type]]
        ELSE [c |-> c, note |-> Note("advanced", c)]

handle_layer_advance(c) ==
    LET u == upgrade_qi_quality_for_layer(c)
    IN  IF u.upgraded
        THEN LET d == refresh_cultivation_rate(u.c)
             IN  [c    |-> d,
                  note |-> Note("advanced, qi refined", d)
                               @@ [qi_quality |-> d.qi_quality, qi_type |-> d.qi_type]]
        ELSE [c |-> c, note |-> Note("advanced", c)]

\* A faulty variant: passing Peak starts the stages again in the same layer.
advance_stage_without_layer_increment(c, draw) ==
    LET current_stage_index == IndexOf(STAGE_ORDER, c.stage)
    IN  IF current_stage_index + 1 < Len(STAGE_ORDER)
        THEN LET d == [c EXCEPT !.stage = STAGE_ORDER[current_stage_index + 2]]
             IN  [c |-> d, note |-> Note("advanced", d)]
        ELSE IF c.realm = QI_CONDENSATION /\ c.layer < max_qi_layers
        THEN handle_layer_advance([c EXCEPT !.stage = "Initial"])
        ELSE IF is_qi_condensation_cap(c)
        THEN [c    |-> [c EXCEPT !.foundation_progress =
                                     FMax(c.foundation_progress, DZero)],
              note |-> Note("foundation bar awakened", c)]
        ELSE breakthrough_realm(c, draw)

\* A faulty variant: passing Peak skips a layer.
advance_stage_skips_layer(c, draw) ==
    LET current_stage_index == IndexOf(STAGE_ORDER, c.stage)
    IN  IF current_stage_index + 1 < Len(STAGE_ORDER)
        THEN LET d == [c EXCEPT !.stage = STAGE_ORDER[current_stage_index + 2]]
             IN  [c |-> d, note |-> Note("advanced", d)]
        ELSE IF c.realm = QI_CONDENSATION /\ c.layer < max_qi_layers
        THEN handle_layer_advance([c EXCEPT !.layer = DMin(c.layer + 2, max_qi_layers),
                                            !.stage = "Initial"])
        ELSE IF is_qi_condensation_cap(c)
        THEN [c    |-> [c EXCEPT !.foundation_progress =
                                     FMax(c.foundation_progress, DZero)],
              note |-> Note("foundation bar awakened", c)]
        ELSE breakthrough_realm(c, draw)

\* A faulty variant: no branch for the first-realm plateau, so Peak of the
\* 15th layer goes on to breakthrough_realm.
advance_stage_without_plateau(c, draw) ==
    LET current_stage_index == IndexOf(STAGE_ORDER, c.stage)
    IN  IF current_stage_index + 1 < Len(STAGE_ORDER)
        THEN LET d == [c EXCEPT !.stage = STAGE_ORDER[current_stage_index + 2]]
             IN  [c |-> d, note |-> Note("advanced", d)]
        ELSE IF c.realm = QI_CONDENSATION /\ c.layer < max_qi_layers
        THEN handle_layer_advance([c EXCEPT !.layer = c.layer + 1, !.stage = "Initial"])
        ELSE breakthrough_realm(c, draw)

\* A faulty variant: a stage-advance within a layer starts the stage at exp 0.
advance_stage_resets_exp(c, draw) ==
    LET current_stage_index == IndexOf(STAGE_ORDER, c.stage)
    IN  IF current_stage_index + 1 < Len(STAGE_ORDER)
        THEN LET d == [c EXCEPT !.stage = STAGE_ORDER[current_stage_index + 2], !.exp = 0]
             IN  [c |-> d, note |-> Note("advanced", d)]
        ELSE IF c.realm = QI_CONDENSATION /\ c.layer < max_qi_layers
        THEN handle_layer_advance([c EXCEPT !.layer = c.layer + 1, !.stage = "Initial"])
        ELSE IF is_qi_condensation_cap(c)
        THEN [c    |-> [c EXCEPT !.foundation_progress =
                                     FMax(c.foundation_progress, DZero)],
              note |-> Note("foundation bar awakened", c)]
        ELSE breakthrough_realm(c, draw)

advance_stage(c, draw) ==
    LET current_stage_index == IndexOf(STAGE_ORDER, c.stage)
    IN  IF current_stage_index + 1 < Len(STAGE_ORDER)
        THEN LET d == [c EXCEPT !.stage = STAGE_ORDER[current_stage_index + 2]]
             IN  [c |-> d, note |-> Note("advanced", d)]
        ELSE IF c.realm = QI_CONDENSATION /\ c.layer < max_qi_layers
        THEN handle_layer_advance([c EXCEPT !.layer = c.layer + 1, !.stage = "Initial"])
        ELSE IF is_qi_condensation_cap(c)
        THEN [c    |-> [c EXCEPT !.foundation_progress =
                                     FMax(c.foundation_progress, DZero)],
              note |-> Note("foundation bar awakened", c)]
        ELSE breakthrough_realm(c, draw)

\* The value of ticks_until_breakthrough(): float("inf"), or a finite float x.
Infinity == [inf |-> TRUE, x |-> DZero]

Finite(x) == [inf |-> FALSE, x |-> x]

ticks_until_breakthrough(c) ==
    IF foundation_bar_active(c)
    THEN LET remaining_ratio == FMax(FSub(FOne, c.foundation_progress), DZero)
         IN  Finite(FMul(remaining_ratio, DFromNat(FOUNDATION_FILL_TICKS)))
    ELSE IF is_maxed_out(c) THEN Infinity
    ELSE LET remaining == IF required_exp(c) - c.exp > 0 THEN required_exp(c) - c.exp ELSE 0
         IN  IF c.cultivation_rate <= 0 THEN Infinity
             ELSE Finite(FDivNat(remaining, c.cultivation_rate))

\* ticks / FOUNDATION_FILL_TICKS.  The quotients of the tick counts the model
\* draws are computed once; any other count is divided on the spot.
TickFractions ==
    [t \in TickSet \cup FillTickSet |-> FDivNat(t, FOUNDATION_FILL_TICKS)]

tick_fraction(ticks) ==
    IF ticks \in DOMAIN TickFractions THEN TickFractions[ticks]
    ELSE FDivNat(ticks, FOUNDATION_FILL_TICKS)

\* A faulty variant: the increment replaces the progress made so far.
update_foundation_progress_not_accumulating(c, ticks) ==
    IF ~foundation_bar_active(c) THEN [c |-> c, notes |-> <<>>]
    ELSE IF DLe(FOne, c.foundation_progress) THEN [c |-> c, notes |-> <<>>]
    ELSE LET previous  == c.foundation_progress
             increment == tick_fraction(ticks)
             noted(d) ==
                 IF DLt(previous, FOne) /\ DLe(FOne, d.foundation_progress)
                 THEN [c |-> d, notes |-> <<Note("foundation bar complete", d)>>]
                 ELSE [c |-> d, notes |-> <<>>]
         IN  noted([c EXCEPT !.foundation_progress = FMin(FOne, increment)])

update_foundation_progress(c, ticks) ==
    IF ~foundation_bar_active(c) THEN [c |-> c, notes |-> <<>>]
    ELSE IF DLe(FOne, c.foundation_progress) THEN [c |-> c, notes |-> <<>>]
    ELSE LET previous  == c.foundation_progress
             increment == tick_fraction(ticks)
             noted(d) ==
                 IF DLt(previous, FOne) /\ DLe(FOne, d.foundation_progress)
                 THEN [c |-> d, notes |-> <<Note("foundation bar complete", d)>>]
                 ELSE [c |-> d, notes |-> <<>>]
         IN  noted([c EXCEPT !.foundation_progress =
                                 FMin(FOne, FAdd(c.foundation_progress, increment))])

\* The rollover loop of add_exp: one unfolding of rollover_block per iteration
\* of the while.  done tells that the loop has ended (its condition failed or a
\* break was taken).  The loop is evaluated in blocks of ROLLOVER_BLOCK
\* iterations only to bound the depth of evaluation; rollover runs the blocks
\* until the loop has ended.
ROLLOVER_BLOCK == 16

\* A faulty variant: the break at a cap without the min() before it.
RECURSIVE rollover_block_unclamped(_, _, _, _)
rollover_block_unclamped(c, log, draw, n) ==
    IF c.exp >= required_exp(c)
    THEN IF n = 0 THEN [c |-> c, log |-> log, done |-> FALSE]
         ELSE LET advanced(a) ==
                      IF is_qi_condensation_cap(a.c) \/ is_maxed_out(a.c)
                      THEN [c |-> a.c, log |-> Append(log, a.note), done |-> TRUE]
                      ELSE rollover_block_unclamped(a.c, Append(log, a.note), draw, n - 1)
              IN  advanced(advance_stage([c EXCEPT !.exp = c.exp - required_exp(c)],
                                         draw))
    ELSE [c |-> c, log |-> log, done |-> TRUE]

\* A faulty variant: no break at a cap, so the loop goes on while exp allows.
RECURSIVE rollover_block_without_break(_, _, _, _)
rollover_block_without_break(c, log, draw, n) ==
    IF c.exp >= required_exp(c)
    THEN IF n = 0 THEN [c |-> c, log |-> log, done |-> FALSE]
         ELSE LET advanced(a) ==
                      rollover_block_without_break(a.c, Append(log, a.note), draw, n - 1)
              IN  advanced(advance_stage([c EXCEPT !.exp = c.exp - required_exp(c)],
                                         draw))
    ELSE [c |-> c, log |-> log, done |-> TRUE]

\* A faulty variant: the threshold is taken off after the stage-advance, so
\* it is the threshold of the stage reached.
RECURSIVE rollover_block_subtracts_after(_, _, _, _)
rollover_block_subtracts_after(c, log, draw, n) ==
    IF c.exp >= required_exp(c)
    THEN IF n = 0 THEN [c |-> c, log |-> log, done |-> FALSE]
         ELSE LET paid(a) == [a EXCEPT !.c.exp = a.c.exp - required_exp(a.c)]
                  advanced(a) ==
                      IF is_qi_condensation_cap(a.c) \/ is_maxed_out(a.c)
                      THEN [c    |-> [a.c EXCEPT !.exp = DMin(a.c.exp, required_exp(a.c))],
                            log  |-> Append(log, a.note),
                            done |-> TRUE]
                      ELSE rollover_block_subtracts_after(a.c, Append(log, a.note),
                                                          draw, n - 1)
              IN  advanced(paid(advance_stage(c, draw)))
    ELSE [c |-> c, log |-> log, done |-> TRUE]

RECURSIVE rollover_block(_, _, _, _)
rollover_block(c, log, draw, n) ==
    IF c.exp >= required_exp(c)
    THEN IF n = 0 THEN [c |-> c, log |-> log, done |-> FALSE]
         ELSE LET advanced(a) ==
                      IF is_qi_condensation_cap(a.c) \/ is_maxed_out(a.c)
                      THEN [c    |-> [a.c EXCEPT !.exp = DMin(a.c.exp, required_exp(a.c))],
                            log  |-> Append(log, a.note),
                            done |-> TRUE]
                      ELSE rollover_block(a.c, Append(log, a.note), draw, n - 1)
              IN  advanced(advance_stage([c EXCEPT !.exp = c.exp - required_exp(c)],
                                         draw))
    ELSE [c |-> c, log |-> log, done |-> TRUE]

RECURSIVE rollover(_, _, _)
rollover(c, log, draw) ==
    LET again(r) == IF r.done THEN r ELSE rollover(r.c, r.log, draw)
    IN  again(rollover_block(c, log, draw, ROLLOVER_BLOCK))

\* A faulty variant: an if in place of the while, so at most one stage-advance a call.
add_exp_single_rollover(c, ticks, draw) ==
    LET returned(log, f) == [c |-> f.c, log |-> log \o f.notes]
        foundation(r)    == returned(r.log, update_foundation_progress(r.c, ticks))
    IN  foundation(IF is_maxed_out(c)
                   THEN [c   |-> [c EXCEPT !.exp = DMin(c.exp + c.cultivation_rate * ticks,
                                                        required_exp(c))],
                         log |-> <<>>]
                   ELSE rollover_block([c EXCEPT
                                           !.exp = c.exp + c.cultivation_rate * ticks],
                                       <<>>, draw, 1))

\* A faulty variant: no is_maxed_out() branch ahead of the loop.
add_exp_without_cap_branch(c, ticks, draw) ==
    LET returned(log, f) == [c |-> f.c, log |-> log \o f.notes]
        foundation(r)    == returned(r.log, update_foundation_progress(r.c, ticks))
    IN  foundation(rollover([c EXCEPT !.exp = c.exp + c.cultivation_rate * ticks],
                            <<>>, draw))

\* A faulty variant: the bar starts to fill with the call after the one that
\* arrived at the plateau.
add_exp_fills_from_next_call(c, ticks, draw) ==
    LET returned(log, f) == [c |-> f.c, log |-> log \o f.notes]
        foundation(r)    == returned(r.log,
                                     IF foundation_bar_active(c)
                                     THEN update_foundation_progress(r.c, ticks)
                                     ELSE [c |-> r.c, notes |-> <<>>])
    IN  foundation(IF is_maxed_out(c)
                   THEN [c   |-> [c EXCEPT !.exp = DMin(c.exp + c.cultivation_rate * ticks,
                                                        required_exp(c))],
                         log |-> <<>>]
                   ELSE rollover([c EXCEPT !.exp = c.exp + c.cultivation_rate * ticks],
                                 <<>>, draw))

\* r is the object and the log before the closing update_foundation_progress:
\* after the clamp of the maxed-out branch, or after the loop.
add_exp(c, ticks, draw) ==
    LET returned(log, f) == [c |-> f.c, log |-> log \o f.notes]
        foundation(r)    == returned(r.log, update_foundation_progress(r.c, ticks))
    IN  foundation(IF is_maxed_out(c)
                   THEN [c   |-> [c EXCEPT !.exp = DMin(c.exp + c.cultivation_rate * ticks,
                                                        required_exp(c))],
                         log |-> <<>>]
                   ELSE rollover([c EXCEPT !.exp = c.exp + c.cultivation_rate * ticks],
                                 <<>>, draw))

\* The literals 0.10 and 0.90 of breakthrough_chance.
BASE_CHANCE == FDivNat(10, 100)

CHANCE_PER_PROGRESS == FDivNat(90, 100)

\* A faulty variant: the chance is the bonus alone, without the base.
breakthrough_chance_without_base(c) ==
    IF ~foundation_bar_active(c) THEN DZero
    ELSE LET bonus == FMul(CHANCE_PER_PROGRESS, c.foundation_progress)
         IN  FMax(DZero, FMin(bonus, FOne))

breakthrough_chance(c) ==
    IF ~foundation_bar_active(c) THEN DZero
    ELSE LET base  == BASE_CHANCE
             bonus == FMul(CHANCE_PER_PROGRESS, c.foundation_progress)
         IN  FMax(DZero, FMin(FAdd(base, bonus), FOne))

\* A faulty variant: the new realm starts over with the faintest qi.
breakthrough_success_resets_quality(c) ==
    [c EXCEPT !.realm = FOUNDATION_ESTABLISHMENT, !.stage = "Initial", !.layer = 1,
              !.exp = 0, !.foundation_progress = DZero, !.qi_quality = "Faint",
              !.cultivation_rate = 1]

\* The assignments of the successful branch.
breakthrough_success(c) ==
    [c EXCEPT !.realm = FOUNDATION_ESTABLISHMENT, !.stage = "Initial", !.layer = 1,
              !.exp = 0, !.foundation_progress = DZero]

\* A faulty variant: the failed branch forgets to reset exp.
breakthrough_failure_keeps_exp(c) ==
    [c EXCEPT !.stage = "Late", !.layer = max_qi_layers, !.foundation_progress = DZero]

\* A faulty variant: the failed branch leaves the foundation bar as it was.
breakthrough_failure_keeps_progress(c) ==
    [c EXCEPT !.stage = "Late", !.layer = max_qi_layers, !.exp = 0]

\* The assignments of the failed branch.
breakthrough_failure(c) ==
    [c EXCEPT !.stage = "Late", !.layer = max_qi_layers, !.exp = 0,
              !.foundation_progress = DZero]

\* A faulty variant: no test of foundation_bar_active() before the draw.
attempt_foundation_breakthrough_unguarded(c, draw) ==
    IF DLe(draw, breakthrough_chance(c))
    THEN [c |-> breakthrough_success(c), ok |-> TRUE, msg |-> "breakthrough successful",
          drew |-> TRUE]
    ELSE [c |-> breakthrough_failure(c), ok |-> FALSE, msg |-> "breakthrough failed",
          drew |-> TRUE]

\* draw is the value random() returns if it is called; drew tells whether
\* it was called.
attempt_foundation_breakthrough(c, draw) ==
    IF ~foundation_bar_active(c)
    THEN [c |-> c, ok |-> FALSE, msg |-> "not ready", drew |-> FALSE]
    ELSE IF DLe(draw, breakthrough_chance(c))
    THEN [c |-> breakthrough_success(c), ok |-> TRUE, msg |-> "breakthrough successful",
          drew |-> TRUE]
    ELSE [c |-> breakthrough_failure(c), ok |-> FALSE, msg |-> "breakthrough failed",
          drew |-> TRUE]

(***************************************************************************)
(* Player.apply_ticks (models.py) and the tick orchestrator of             *)
(* WorldService / PlayerService (bot.py).  A player is the record of the   *)
(* fields the orchestrator reads or writes; players is the dict of the     *)
(* service in insertion order; worlds and zones map an id to its record.   *)
(***************************************************************************)
None == "None"

NewPlayer(user_id, now, world_id, zone_id) ==
    [user_id |-> user_id, cultivation |-> NewCultivation, hours_cultivated |-> 0,
     tribulations_survived |-> 0, last_tick_timestamp |-> now, tick_buffer |-> DZero,
     world_id |-> world_id, zone_id |-> zone_id, position_x |-> 0, position_y |-> 0,
     steps_travelled |-> 0]

RECURSIVE CountKind(_, _)
CountKind(notes, kind) ==
    IF notes = <<>> THEN 0
    ELSE (IF Head(notes).kind = kind THEN 1 ELSE 0) + CountKind(Tail(notes), kind)

\* Only the "Heavenly tribulation overcome!" message holds both "tribulation"
\* and "overcome".
apply_ticks(player, ticks, draw) ==
    LET counted(r) ==
            [player |-> [player EXCEPT
                            !.hours_cultivated = player.hours_cultivated + ticks * 24,
                            !.cultivation = r.c,
                            !.tribulations_survived =
                                player.tribulations_survived
                                + CountKind(r.log, "tribulation overcome")],
             logs   |-> r.log]
    IN  counted(add_exp(player.cultivation, ticks, draw))

\* An Optional result is a sequence: <<>> for None, <<x>> for x.
get_world(worlds, world_id) ==
    IF world_id = None \/ world_id \notin DOMAIN worlds THEN <<>> ELSE <<worlds[world_id]>>

get_zone(zones, zone_id) ==
    IF zone_id = None \/ zone_id \notin DOMAIN zones THEN <<>> ELSE <<zones[zone_id]>>

\* max(x.time_flow, 0.0) or 1.0
flow_or_one(x) ==
    LET or_one(flow) == IF flow = DZero THEN FOne ELSE flow
    IN  or_one(FMax(x.time_flow, DZero))

effective_time_flow(worlds, zones, player) ==
    LET world      == get_world(worlds, player.world_id)
        zone       == get_zone(zones, player.zone_id)
        world_flow == IF world # <<>> THEN flow_or_one(world[1]) ELSE FOne
        zone_flow  == IF zone # <<>> THEN flow_or_one(zone[1]) ELSE FOne
    IN  FMulUnderflow(world_flow, zone_flow)

\* WorldService.clamp_position
clamp_position(zones, player) ==
    LET zone == get_zone(zones, player.zone_id)
        clamp(v, size) == IF v < 0 THEN 0 ELSE IF v > size - 1 THEN (IF size > 1 THEN size - 1 ELSE 0) ELSE v
    IN  IF zone = <<>>
        THEN [player EXCEPT !.position_x = 0, !.position_y = 0]
        ELSE [player EXCEPT !.position_x = clamp(player.position_x, zone[1].x_size),
                            !.position_y = clamp(player.position_y, zone[1].y_size)]

\* beginning_world() / beginning_zone(): the first one flagged beginning.
beginning_of(m) == IF \E k \in DOMAIN m : m[k].beginning
                   THEN <<CHOOSE k \in DOMAIN m : m[k].beginning>> ELSE <<>>

assign_beginning_location(worlds, zones, player) ==
    LET world == beginning_of(worlds)
        zone  == beginning_of(zones)
    IN  IF world # <<>> /\ zone # <<>> /\ zones[zone[1]].world_id = world[1]
        THEN clamp_position(zones, [player EXCEPT !.world_id = world[1],
                                                  !.zone_id = zone[1],
                                                  !.position_x = 0, !.position_y = 0])
        ELSE player

ensure_location(worlds, zones, player) ==
    clamp_position(zones,
                   IF player.world_id = None \/ player.zone_id = None
                   THEN assign_beginning_location(worlds, zones, player)
                   ELSE player)

\* send_travel_panel: the player after the call, and whether service.save()
\* was reached.  in_channel: interaction.channel_id == zone.channel_id.
send_travel_panel(worlds, zones, player, in_channel) ==
    LET located == ensure_location(worlds, zones, player)
    IN  IF get_world(worlds, located.world_id) = <<>>
           \/ get_zone(zones, located.zone_id) = <<>>
        THEN [player |-> located, saved |-> FALSE]
        ELSE IF ~in_channel THEN [player |-> located, saved |-> FALSE]
        ELSE [player |-> clamp_position(zones, located), saved |-> TRUE]

\* TravelView.move
\* of its four buttons, |dx| + |dy| = dx * dx + dy * dy = 1.
move(worlds, zones, player, dx, dy) ==
    IF get_zone(zones, player.zone_id) = <<>> \/ get_world(worlds, player.world_id) = <<>>
    THEN [player |-> player, saved |-> FALSE]
    ELSE [player |-> [clamp_position(zones,
                                     [player EXCEPT !.position_x = player.position_x + dx,
                                                    !.position_y = player.position_y + dy])
                         EXCEPT !.steps_travelled = @ + dx * dx + dy * dy],
          saved  |-> TRUE]

\* PlayerService.handle_world_deleted, the world and its zones already popped.
handle_world_deleted(worlds, zones, players, world_id, removed_zone_ids) ==
    [players |-> [i \in 1..Len(players) |->
                     IF players[i].world_id = world_id
                     THEN ensure_location(worlds, zones,
                                          [players[i] EXCEPT !.world_id = None,
                                                             !.zone_id = None,
                                                             !.position_x = 0,
                                                             !.position_y = 0])
                     ELSE IF players[i].zone_id \in removed_zone_ids
                     THEN ensure_location(worlds, zones,
                                          [players[i] EXCEPT !.zone_id = None,
                                                             !.position_x = 0,
                                                             !.position_y = 0])
                     ELSE players[i]],
     changed |-> \E i \in 1..Len(players) :
                    \/ players[i].world_id = world_id
                    \/ players[i].zone_id \in removed_zone_ids]

\* PlayerService.handle_zone_deleted, the zone already popped from zones.
handle_zone_deleted(worlds, zones, players, zone_id) ==
    [players |-> [i \in 1..Len(players) |->
                     IF players[i].zone_id = zone_id
                     THEN ensure_location(worlds, zones,
                                          [players[i] EXCEPT !.zone_id = None,
                                                             !.position_x = 0,
                                                             !.position_y = 0])
                     ELSE players[i]],
     changed |-> \E i \in 1..Len(players) : players[i].zone_id = zone_id]

\* Player.to_dict: dataclasses.asdict gives a dict of the fields, the
\* cultivation a dict of its fields; world_id and zone_id are popped if None.
to_dict(player) ==
    [k \in DOMAIN player \ {f \in {"world_id", "zone_id"} : player[f] = None}
        |-> player[k]]

\* data.get(key, default)
get(data, key, default) == IF key \in DOMAIN data THEN data[key] ELSE default

\* A faulty variant: the tick_buffer of the data is not read.
from_dict_without_tick_buffer(data) ==
    [user_id               |-> data.user_id,
     cultivation           |-> post_init(get(data, "cultivation", NewCultivation)),
     hours_cultivated      |-> get(data, "hours_cultivated", 0),
     tribulations_survived |-> get(data, "tribulations_survived", 0),
     last_tick_timestamp   |-> get(data, "last_tick_timestamp", 0),
     tick_buffer           |-> DZero,
     world_id              |-> get(data, "world_id", None),
     zone_id               |-> get(data, "zone_id", None),
     position_x            |-> get(data, "position_x", 0),
     position_y            |-> get(data, "position_y", 0),
     steps_travelled       |-> get(data, "steps_travelled", 0)]

\* Player.from_dict: every field by data.get with its default, the
\* cultivation through the CultivationProgress constructor and so __post_init__.
from_dict(data) ==
    [user_id               |-> data.user_id,
     cultivation           |-> post_init(get(data, "cultivation", NewCultivation)),
     hours_cultivated      |-> get(data, "hours_cultivated", 0),
     tribulations_survived |-> get(data, "tribulations_survived", 0),
     last_tick_timestamp   |-> get(data, "last_tick_timestamp", 0),
     tick_buffer           |-> get(data, "tick_buffer", DZero),
     world_id              |-> get(data, "world_id", None),
     zone_id               |-> get(data, "zone_id", None),
     position_x            |-> get(data, "position_x", 0),
     position_y            |-> get(data, "position_y", 0),
     steps_travelled       |-> get(data, "steps_travelled", 0)]

\* new_buffer = total_ticks - ticks_to_apply
new_buffer_of(total_ticks, ticks_to_apply) == FSub(total_ticks, DFromNat(ticks_to_apply))

\* A faulty variant: the timestamp jumps to now.
advanced_timestamp_to_now(last_tick_timestamp, real_ticks, now) == now

\* last_tick_timestamp += int(real_ticks * SECONDS_PER_TICK), clamped to now.
advanced_timestamp(last_tick_timestamp, real_ticks, now) ==
    DMin(last_tick_timestamp + real_ticks * SECONDS_PER_TICK, now)

\* A faulty variant: apply_ticks is called whatever ticks_to_apply is.
applies_ticks_always(ticks_to_apply) == TRUE

\* if ticks_to_apply:
applies_ticks(ticks_to_apply) == ticks_to_apply # 0

\* a is the player and the notes after the call of apply_ticks, if any;
\* applied holds the argument of that call, and is empty if there was none.
apply_time_progression(worlds, zones, player, real_ticks, now, draw) ==
    LET returned(total_ticks, ticks_to_apply, a) ==
            [player  |-> [a.player EXCEPT
                             !.tick_buffer = new_buffer_of(total_ticks, ticks_to_apply),
                             !.last_tick_timestamp =
                                 advanced_timestamp(a.player.last_tick_timestamp,
                                                    real_ticks, now)],
             logs    |-> [i \in 1..Len(a.logs) |->
                             [player |-> player.user_id, note |-> a.logs[i]]],
             changed |-> TRUE,
             applied |-> a.applied]
        applied(total_ticks, ticks_to_apply) ==
            returned(total_ticks, ticks_to_apply,
                     IF applies_ticks(ticks_to_apply)
                     THEN apply_ticks(player, ticks_to_apply, draw)
                          @@ [applied |-> <<ticks_to_apply>>]
                     ELSE [player |-> player, logs |-> <<>>, applied |-> <<>>])
        progressed(total_ticks) == applied(total_ticks, FTrunc(total_ticks))
    IN  progressed(FAdd(player.tick_buffer,
                        FMul(DFromNat(real_ticks),
                             effective_time_flow(worlds, zones, player))))

\* elapsed = max(now - player.last_tick_timestamp, 0)
elapsed_of(player, now) ==
    IF now - player.last_tick_timestamp > 0 THEN now - player.last_tick_timestamp ELSE 0

\* A faulty variant: the floor of one tick of the live loop, copied into the catch-up.
offline_real_ticks_floored(player, now) ==
    IF elapsed_of(player, now) \div SECONDS_PER_TICK > 1
    THEN elapsed_of(player, now) \div SECONDS_PER_TICK ELSE 1

\* real_ticks = elapsed // SECONDS_PER_TICK
offline_real_ticks(player, now) == elapsed_of(player, now) \div SECONDS_PER_TICK

\* A faulty variant: the live loop without its floor of one tick.
live_real_ticks_unfloored(player, now) == elapsed_of(player, now) \div SECONDS_PER_TICK

\* real_ticks = max(int(elapsed // SECONDS_PER_TICK), 1)
live_real_ticks(player, now) ==
    IF elapsed_of(player, now) \div SECONDS_PER_TICK > 1
    THEN elapsed_of(player, now) \div SECONDS_PER_TICK ELSE 1

\* One player's turn in the sweep of apply_offline_ticks.
offline_turn(worlds, zones, player, now, draw) ==
    LET real_ticks == offline_real_ticks(player, now)
    IN  IF real_ticks # 0
        THEN apply_time_progression(worlds, zones, player, real_ticks, now, draw)
        ELSE [player |-> player, logs |-> <<>>, changed |-> FALSE, applied |-> <<>>]

\* One player's turn in the sweep of apply_live_tick.
live_turn(worlds, zones, player, now, draw) ==
    apply_time_progression(worlds, zones, player, live_real_ticks(player, now), now, draw)

RECURSIVE ConcatLogs(_)
ConcatLogs(turns) ==
    IF turns = <<>> THEN <<>> ELSE Head(turns).logs \o ConcatLogs(Tail(turns))

\* The for loop over self.players.values(): turns[i] is the i-th player's turn.
sweep_result(turns) ==
    [players |-> [i \in 1..Len(turns) |-> turns[i].player],
     logs    |-> ConcatLogs(turns),
     changed |-> \E i \in 1..Len(turns) : turns[i].changed,
     applied |-> [i \in 1..Len(turns) |-> turns[i].applied]]

apply_offline_ticks(worlds, zones, players, now, draws) ==
    sweep_result([i \in 1..Len(players) |->
                     offline_turn(worlds, zones, players[i], now, draws[i])])

apply_live_tick(worlds, zones, players, now, draws) ==
    sweep_result([i \in 1..Len(players) |->
                     live_turn(worlds, zones, players[i], now, draws[i])])

\* The body of the for loop of a sweep when self.players.values() yields the
\* player at index i: the players are mutated in place, so the turn reads the
\* dictionary as the turns before it left it.
\* A faulty variant: elapsed is taken from the first player of the dictionary.
sweep_turn_elapsed_of_first(op, worlds, zones, players, i, now, draw) ==
    IF op = "apply_offline_ticks"
    THEN IF offline_real_ticks(players[1], now) # 0
         THEN apply_time_progression(worlds, zones, players[i],
                                     offline_real_ticks(players[1], now), now, draw)
         ELSE [player |-> players[i], logs |-> <<>>, changed |-> FALSE, applied |-> <<>>]
    ELSE apply_time_progression(worlds, zones, players[i],
                                live_real_ticks(players[1], now), now, draw)

sweep_turn(op, worlds, zones, players, i, now, draw) ==
    IF op = "apply_offline_ticks"
    THEN offline_turn(worlds, zones, players[i], now, draw)
    ELSE live_turn(worlds, zones, players[i], now, draw)

\* The for loop of a sweep over a dictionary that yields its players in the
\* order given (indices into players); draws[k] is what random() returns in
\* the k-th turn made.  acc holds the players, the logs and the flag so far.
RECURSIVE sweep_loop(_, _, _, _, _, _, _, _)
sweep_loop(op, worlds, zones, acc, now, draws, order, k) ==
    IF k > Len(order) THEN acc
    ELSE LET turned(t) ==
                 sweep_loop(op, worlds, zones,
                            [players |-> [acc.players EXCEPT ![order[k]] = t.player],
                             logs    |-> acc.logs \o t.logs,
                             changed |-> acc.changed \/ t.changed,
                             applied |-> [acc.applied EXCEPT ![order[k]] = t.applied]],
                            now, draws, order, k + 1)
         IN  turned(sweep_turn(op, worlds, zones, acc.players, order[k], now, draws[k]))

sweep_in_order(op, worlds, zones, players, now, draws, order) ==
    sweep_loop(op, worlds, zones,
               [players |-> players, logs |-> <<>>, changed |-> FALSE,
                applied |-> [i \in 1..Len(players) |-> <<>>]],
               now, draws, order, 1)

(***************************************************************************)
(* The engine as a state machine: one character, one action per public     *)
(* method call.  ret is the value the last call returned, with its         *)
(* argument.                                                               *)
(***************************************************************************)
VARIABLES
    cult,           \* the character's CultivationProgress
    ret,            \* [op, arg, ok, notes]: the last call and what it returned
    fillTicks,      \* ticks applied since the foundation bar was empty (saturating)
    completeCount,  \* calls that returned "Foundation bar complete" (saturating at 2)
    worlds,         \* WorldService.worlds: id -> [time_flow, beginning]
    zones,          \* WorldService.zones: id -> [world_id, time_flow, beginning]
    players,        \* PlayerService.players, in insertion order
    now,            \* the clock, int(time.time())
    tret,           \* [op, now, logs, again]: the last service call and its result
    audit,          \* per player: ticks handed to the engine, exact ticks due, and
                    \* the real ticks of the last sweep
    sweeps,         \* tick sweeps made so far
    setup_pc,       \* where setup_hook stands
    loop_pc,        \* where the tick_loop task stands
    running,        \* the coroutine that holds the event loop, or "none"
    calls,          \* the tick sweeps in progress: [op, now, cursor, logs, changed]
    disk,           \* the players as last written by save_all
    ready           \* the client is ready (wait_until_ready returns)

engineVars == <<cult, ret, fillTicks, completeCount>>

botVars == <<setup_pc, loop_pc, running, calls, disk, ready>>

serviceVars == <<worlds, zones, players, now, tret, audit, sweeps, setup_pc, loop_pc,
                 running, calls, disk, ready>>

vars == <<cult, ret, fillTicks, completeCount, worlds, zones, players, now, tret, audit,
          sweeps, setup_pc, loop_pc, running, calls, disk, ready>>

\* CultivationProgress(layer=15, stage=Stage.PEAK): at the plateau, bar empty.
PlateauCultivation ==
    post_init([NewCultivation EXCEPT !.layer = max_qi_layers, !.stage = "Peak"])

\* The largest float below 1.
BelowOne == ExactSub(FOne, [m |-> <<1>>, e |-> 0 - PREC])

\* The breakthrough chance of a bar filled by 1000 ticks: a draw equal to it
\* separates <= from <.
ChanceAfter1000 ==
    FAdd(BASE_CHANCE, FMul(CHANCE_PER_PROGRESS, FDivNat(1000, FOUNDATION_FILL_TICKS)))

Half == [m |-> <<1>>, e |-> -1]

\* Values of random(): 0, the base chance 0.1, the danger 0.25, 0.5, a chance
\* the bar can have, and the largest float below 1.
DrawSet == {DZero, BASE_CHANCE, DANGER, Half, ChanceAfter1000, BelowOne}

TribulationDraws == {DZero, Half}

NoCall == [op |-> "new", arg |-> 0, ok |-> TRUE, notes |-> <<>>]

HasNote(notes, kind) == \E i \in 1..Len(notes) : notes[i].kind = kind

AddExpCall(t, d) ==
    \E r \in {add_exp(cult, t, d)} :
        /\ cult' = r.c
        /\ ret' = [op |-> "add_exp", arg |-> t, ok |-> TRUE, notes |-> r.log]

AddExp ==
    /\ \E t \in TickSet, d \in TribulationDraws : AddExpCall(t, d)
    /\ UNCHANGED <<fillTicks, completeCount>>
    /\ UNCHANGED serviceVars

AttemptFoundationBreakthrough ==
    /\ \E d \in DrawSet :
          \E r \in {attempt_foundation_breakthrough(cult, d)} :
              /\ cult' = r.c
              /\ ret' = [op |-> "attempt", arg |-> d, ok |-> r.ok, notes |-> <<r.msg>>,
                         drew |-> r.drew]
    /\ UNCHANGED <<fillTicks, completeCount>>
    /\ UNCHANGED serviceVars

BreakthroughRealm ==
    /\ \E d \in DrawSet :
          \E r \in {breakthrough_realm(cult, d)} :
              /\ cult' = r.c
              /\ ret' = [op |-> "breakthrough_realm", arg |-> d, ok |-> TRUE,
                         notes |-> <<r.note>>]
    /\ UNCHANGED <<fillTicks, completeCount>>
    /\ UNCHANGED serviceVars

\* add_exp at the plateau, counting the ticks and the "complete" notes.
FillAddExp ==
    \E t \in FillTickSet, d \in TribulationDraws :
        /\ UNCHANGED serviceVars
        /\ AddExpCall(t, d)
        /\ fillTicks' = DMin(fillTicks + t, FOUNDATION_FILL_TICKS)
        /\ completeCount' =
              IF HasNote(ret'.notes, "foundation bar complete")
              THEN DMin(completeCount + 1, 2) ELSE completeCount

\* No service: the engine specifications leave these variables alone.
NoService ==
    /\ worlds = <<>>
    /\ zones = <<>>
    /\ players = <<>>
    /\ now = 0
    /\ tret = [op |-> "new", now |-> 0, logs |-> <<>>, again |-> FALSE]
    /\ audit = <<>>
    /\ sweeps = 0
    /\ setup_pc = "load"
    /\ loop_pc = "unstarted"
    /\ running = "none"
    /\ calls = <<>>
    /\ disk = <<>>
    /\ ready = FALSE

\* A freshly created character.
Init ==
    /\ cult = NewCultivation
    /\ ret = NoCall
    /\ fillTicks = 0
    /\ completeCount = 0
    /\ NoService

InitPlateau ==
    /\ cult = PlateauCultivation
    /\ ret = NoCall
    /\ fillTicks = 0
    /\ completeCount = 0
    /\ NoService

Next == AddExp \/ AttemptFoundationBreakthrough

NextBreakthrough == AddExp \/ AttemptFoundationBreakthrough \/ BreakthroughRealm

NextFill == FillAddExp

\* add_exp and attempt_foundation_breakthrough from a fresh character.
Spec == Init /\ [][Next]_vars

\* The same with direct calls of breakthrough_realm.
SpecBreakthrough == Init /\ [][NextBreakthrough]_vars

\* add_exp alone from the empty foundation bar.
SpecFill == InitPlateau /\ [][NextFill]_vars

(***************************************************************************)
(* The engine under a tick loop that keeps running: add_exp(t) with t >= 1 *)
(* is called again and again (apply_live_tick hands every player of a      *)
(* zone with time flow >= 1 at least one tick in every iteration), and     *)
(* attempt_foundation_breakthrough whenever the player asks.               *)
(***************************************************************************)
LiveTickSet == TickSet \ {0}

AddExpPositive ==
    /\ \E t \in LiveTickSet, d \in TribulationDraws : AddExpCall(t, d)
    /\ UNCHANGED <<fillTicks, completeCount>>
    /\ UNCHANGED serviceVars

NextLive == AddExpPositive \/ AttemptFoundationBreakthrough

\* The fairness of the loop: add_exp(t) with t >= 1 is called infinitely
\* often.  AddExpPositive is enabled in every state and changes ret or cult
\* (two tick counts give two values of ret), so weak fairness of it is the
\* same condition.
SpecLive == Init /\ [][NextLive]_vars /\ []<><<AddExpPositive>>_vars

(***************************************************************************)
(* The engine from any object the constructor can return.                  *)
(***************************************************************************)
\* CultivationProgress(realm=.., stage=.., layer=.., qi_quality=..): every
\* realm, stage, layer and quality, through __post_init__.
Constructed ==
    {post_init([NewCultivation EXCEPT !.realm = realm, !.stage = stage, !.layer = layer,
                                      !.qi_quality = quality]) :
        realm \in {REALM_ORDER[i] : i \in 1..Len(REALM_ORDER)},
        stage \in {STAGE_ORDER[i] : i \in 1..Len(STAGE_ORDER)},
        layer \in 1..max_qi_layers,
        quality \in {QiQualities[i] : i \in 1..Len(QiQualities)}}

\* math.ceil(required_exp() / cultivation_rate)
ceil_required_ticks(c) ==
    (required_exp(c) + c.cultivation_rate - 1) \div c.cultivation_rate

\* add_exp(ceil(required_exp() / cultivation_rate)): the ticks of one whole
\* threshold.
AddExpRequired ==
    /\ \E d \in TribulationDraws : AddExpCall(ceil_required_ticks(cult), d)
    /\ UNCHANGED <<fillTicks, completeCount>>
    /\ UNCHANGED serviceVars

InitConstructed ==
    /\ cult \in Constructed
    /\ ret = NoCall
    /\ fillTicks = 0
    /\ completeCount = 0
    /\ NoService

NextConstructed == AddExpRequired \/ AttemptFoundationBreakthrough

\* Threshold-sized add_exp calls and attempt_foundation_breakthrough from a
\* constructed object.
SpecConstructed == InitConstructed /\ [][NextConstructed]_vars

NextAnyState == AddExp \/ AttemptFoundationBreakthrough

\* add_exp with any tick count and attempt_foundation_breakthrough from a
\* constructed object.
SpecAnyState == InitConstructed /\ [][NextAnyState]_vars

(***************************************************************************)
(* advance_stage called by itself, between add_exp calls.                  *)
(***************************************************************************)
AdvanceStage ==
    /\ \E d \in TribulationDraws :
          \E r \in {advance_stage(cult, d)} :
              /\ cult' = r.c
              /\ ret' = [op |-> "advance_stage", arg |-> d, ok |-> TRUE, notes |-> <<r.note>>]
    /\ UNCHANGED <<fillTicks, completeCount>>
    /\ UNCHANGED serviceVars

NextAdvance == AddExp \/ AdvanceStage

SpecAdvance == Init /\ [][NextAdvance]_vars

(***************************************************************************)
(* Loading: the CultivationProgress built from data on the cultivation table of a      *)
(* players.toml that was edited or written by another version.  ret.arg   *)
(* is the table, ret.value what __post_init__ gave.                        *)
(***************************************************************************)
PersistedLayers ==
    {[int |-> 0], [int |-> 6], [int |-> 99], [str |-> "abc"], [str |-> "7"],
     [float |-> FDivNat(5, 2), neg |-> FALSE], NaN, [special |-> "inf"]}

PersistedProgress ==
    {[float |-> Half, neg |-> FALSE], [float |-> FDivNat(7, 2), neg |-> FALSE],
     [float |-> Half, neg |-> TRUE], [int |-> 1], [str |-> "abc"], NaN}

PersistedCultivations ==
    {[realm |-> [str |-> realm], stage |-> [str |-> stage], layer |-> layer, exp |-> 0,
      qi_type |-> [str |-> qi_type], qi_quality |-> [str |-> qi_quality],
      cultivation_rate |-> 1, foundation_progress |-> progress] :
        realm \in {QI_CONDENSATION, FOUNDATION_ESTABLISHMENT, "Golden Core"},
        stage \in {"Initial", "Peak", "Apex"},
        layer \in PersistedLayers,
        qi_type \in {"Spiritual Qi", "Void Qi"},
        qi_quality \in {"Faint", "Steady", "Heavenly", ORDER_VALUE},
        progress \in PersistedProgress}

LoadOf(op, data) ==
    \E r \in {post_init_persisted(data)} :
        /\ ret' = [op |-> op, arg |-> data, ok |-> r.raised = "", notes |-> <<>>,
                   value |-> r]
        /\ cult' = IF r.raised = "" THEN r.c[1] ELSE cult
        /\ UNCHANGED <<fillTicks, completeCount>>
        /\ UNCHANGED serviceVars

\* load_all at startup.
LoadCultivation ==
    /\ ret.op = "new"
    /\ \E data \in PersistedCultivations : LoadOf("load", data)

\* The loaded object is saved, and loaded at the next startup.
ReloadCultivation ==
    /\ ret.op \in {"load", "reload"}
    /\ ret.ok
    /\ LoadOf("reload", persisted(cult))

NextLoad == LoadCultivation \/ ReloadCultivation

\* Loads into a new object.
SpecLoad == Init /\ [][NextLoad]_vars

(***************************************************************************)
(* The read-only methods, called on a constructed object.  ret.value is    *)
(* the value returned.                                                     *)
(***************************************************************************)
Returned(op, value) == [op |-> op, arg |-> 0, ok |-> TRUE, notes |-> <<>>, value |-> value]

RequiredExp ==
    /\ ret' = Returned("required_exp", required_exp(cult))
    /\ UNCHANGED <<cult, fillTicks, completeCount>>
    /\ UNCHANGED serviceVars

TicksUntilBreakthrough ==
    /\ ret' = Returned("ticks_until_breakthrough", ticks_until_breakthrough(cult))
    /\ UNCHANGED <<cult, fillTicks, completeCount>>
    /\ UNCHANGED serviceVars

BreakthroughChance ==
    /\ ret' = Returned("breakthrough_chance", breakthrough_chance(cult))
    /\ UNCHANGED <<cult, fillTicks, completeCount>>
    /\ UNCHANGED serviceVars

NextQueries == RequiredExp \/ TicksUntilBreakthrough \/ BreakthroughChance

\* The read-only methods on a constructed object.
SpecQueries == InitConstructed /\ [][NextQueries]_vars

(***************************************************************************)
(* The services as a state machine: players register, the clock advances,  *)
(* and the two tick sweeps run.                                            *)
(***************************************************************************)
MaxNow == 180

MaxSweeps == 3

\* Discord user ids of the players.
UserIds == {1, 2}

ClockSteps == {30, 150}

\* time_flow of the beginning zone as given to /create_zone; the world was
\* created with time_flow 0, which create_world stores as 1.0.
ZoneFlowInputs == {FDivNat(1, 10), FDivNat(5, 2)}

WORLD_ID == "mortal"

ZONE_ID == "mortal-valley"

\* x_size and y_size of the beginning zone as given to /create_zone.
ZONE_X_SIZE == 2

ZONE_Y_SIZE == 1

\* create_world / create_zone: time_flow if time_flow > 0 else 1.0
stored_flow(time_flow) == IF DLt(DZero, time_flow) THEN time_flow ELSE FOne

\* register: create_player, then assign_beginning_location.
registered(world_map, zone_map, user_id, t) ==
    LET world == beginning_of(world_map)
        zone  == beginning_of(zone_map)
    IN  IF world # <<>> /\ zone # <<>> /\ zone_map[zone[1]].world_id = world[1]
        THEN NewPlayer(user_id, t, world[1], zone[1])
        ELSE NewPlayer(user_id, t, None, None)

NoAudit == [applied |-> 0, due |-> DZero, real_ticks |-> 0]

Register ==
    /\ Len(players) < Cardinality(UserIds)
    /\ players' = Append(players, registered(worlds, zones, Len(players) + 1, now))
    /\ audit' = Append(audit, NoAudit)
    /\ tret' = [op |-> "register", now |-> now, logs |-> <<>>, again |-> FALSE]
    /\ disk' = players'
    /\ UNCHANGED <<worlds, zones, now, sweeps, setup_pc, loop_pc, running, calls, ready>>
    /\ UNCHANGED engineVars

Tick ==
    /\ \E dt \in ClockSteps : now + dt <= MaxNow /\ now' = now + dt
    /\ tret' = [op |-> "tick", now |-> now', logs |-> <<>>, again |-> FALSE]
    /\ UNCHANGED <<worlds, zones, players, audit, sweeps>>
    /\ UNCHANGED botVars
    /\ UNCHANGED engineVars

\* The audit of one player's turn: the ticks the engine got (it counts 24
\* hours a tick), the exact value of real_ticks * time_flow added to the ticks
\* due, and the real ticks of the turn (0: the sweep skipped the player).
audited(a, before, after, real_ticks) ==
    IF real_ticks = 0 THEN [a EXCEPT !.real_ticks = 0]
    ELSE [applied    |-> a.applied
                         + (after.hours_cultivated - before.hours_cultivated) \div 24,
          due        |-> ExactAdd(a.due,
                                  ExactMul(DFromNat(real_ticks),
                                           effective_time_flow(worlds, zones, before))),
          real_ticks |-> real_ticks]

\* Whole ticks of real time elapsed for a player: floor((now - last) / 60), 0
\* when the timestamp lies in the future.
elapsed_ticks(player) ==
    IF now <= player.last_tick_timestamp THEN 0
    ELSE CHOOSE k \in 0..now :
            /\ k * SECONDS_PER_TICK <= now - player.last_tick_timestamp
            /\ now - player.last_tick_timestamp < (k + 1) * SECONDS_PER_TICK

Sweep(op, r, real_ticks) ==
    /\ sweeps < MaxSweeps
    /\ sweeps' = sweeps + 1
    /\ players' = r.players
    /\ audit' = [i \in 1..Len(players) |->
                    audited(audit[i], players[i], r.players[i], real_ticks[i])]
    /\ tret' = [op |-> op, now |-> now, logs |-> r.logs,
                again |-> tret.op = op /\ tret.now = now, applied |-> r.applied]
    /\ disk' = IF op = "apply_live_tick" \/ r.logs # <<>> \/ r.changed
               THEN r.players ELSE disk
    /\ UNCHANGED <<worlds, zones, now, setup_pc, loop_pc, running, calls, ready>>
    /\ UNCHANGED engineVars

live_ticks(player) == IF elapsed_ticks(player) > 1 THEN elapsed_ticks(player) ELSE 1

ApplyOfflineTicks ==
    \E draws \in [1..Len(players) -> TribulationDraws] :
        Sweep("apply_offline_ticks", apply_offline_ticks(worlds, zones, players, now, draws),
              [i \in 1..Len(players) |-> elapsed_ticks(players[i])])

ApplyLiveTick ==
    \E draws \in [1..Len(players) -> TribulationDraws] :
        Sweep("apply_live_tick", apply_live_tick(worlds, zones, players, now, draws),
              [i \in 1..Len(players) |-> live_ticks(players[i])])

\* The services after load() of a data directory: the beginning world and
\* zone exist, and one player registered at time 0, before they were created.
InitService ==
    /\ cult = NewCultivation
    /\ ret = NoCall
    /\ fillTicks = 0
    /\ completeCount = 0
    /\ worlds = (WORLD_ID :> [beginning |-> TRUE, time_flow |-> stored_flow(DZero)])
    /\ \E tf \in ZoneFlowInputs :
          zones = (ZONE_ID :> [world_id |-> WORLD_ID, beginning |-> TRUE,
                               time_flow |-> stored_flow(tf),
                               x_size |-> ZONE_X_SIZE, y_size |-> ZONE_Y_SIZE])
    /\ players = <<NewPlayer(1, 0, None, None)>>
    /\ now = 0
    /\ tret = [op |-> "load", now |-> 0, logs |-> <<>>, again |-> FALSE]
    /\ audit = <<NoAudit>>
    /\ sweeps = 0
    /\ setup_pc = "load"
    /\ loop_pc = "unstarted"
    /\ running = "none"
    /\ calls = <<>>
    /\ disk = players
    /\ ready = FALSE

\* The services of a world whose beginning zone runs far faster than the
\* world outside: one real tick there is 200000.5 ticks of cultivation.
FastZoneFlowInputs == {FDivNat(5, 2), FDivNat(400001, 2)}

InitFastZone ==
    /\ cult = NewCultivation
    /\ ret = NoCall
    /\ fillTicks = 0
    /\ completeCount = 0
    /\ worlds = (WORLD_ID :> [beginning |-> TRUE, time_flow |-> stored_flow(DZero)])
    /\ \E tf \in FastZoneFlowInputs :
          zones = (ZONE_ID :> [world_id |-> WORLD_ID, beginning |-> TRUE,
                               time_flow |-> stored_flow(tf),
                               x_size |-> ZONE_X_SIZE, y_size |-> ZONE_Y_SIZE])
    /\ players = <<NewPlayer(1, 0, None, None)>>
    /\ now = 0
    /\ tret = [op |-> "load", now |-> 0, logs |-> <<>>, again |-> FALSE]
    /\ audit = <<NoAudit>>
    /\ sweeps = 0
    /\ setup_pc = "load"
    /\ loop_pc = "unstarted"
    /\ running = "none"
    /\ calls = <<>>
    /\ disk = players
    /\ ready = FALSE

\* attempt_foundation_breakthrough() of a player's cultivation.
AttemptOfPlayer ==
    /\ \E i \in 1..Len(players), d \in DrawSet :
          \E r \in {attempt_foundation_breakthrough(players[i].cultivation, d)} :
              /\ players' = [players EXCEPT ![i].cultivation = r.c]
              /\ tret' = [op |-> "attempt", now |-> now, logs |-> <<r.msg>>, again |-> FALSE]
    /\ UNCHANGED <<worlds, zones, now, audit, sweeps>>
    /\ UNCHANGED botVars
    /\ UNCHANGED engineVars

NextPersistence ==
    Register \/ Tick \/ ApplyOfflineTicks \/ ApplyLiveTick \/ AttemptOfPlayer

\* Players of a fast zone, their ticks and their breakthrough attempts.
SpecPersistence == InitFastZone /\ [][NextPersistence]_vars

(***************************************************************************)
(* effective_time_flow over the worlds and zones a data directory can      *)
(* hold: the flows /create_world and /create_zone store, and a 0 that only *)
(* an edited worlds.toml has.                                              *)
(***************************************************************************)
PowerOfTwo(k) == [m |-> <<1>>, e |-> k]

StoredFlows ==
    {DZero} \cup {stored_flow(tf) : tf \in {DZero, FDivNat(1, 10), FDivNat(5, 2),
                                            PowerOfTwo(0 - 530), PowerOfTwo(0 - 540),
                                            PowerOfTwo(0 - 600)}}

InitTimeFlow ==
    /\ cult = NewCultivation
    /\ ret = NoCall
    /\ fillTicks = 0
    /\ completeCount = 0
    /\ \E wf \in StoredFlows : worlds = (WORLD_ID :> [beginning |-> TRUE, time_flow |-> wf])
    /\ \E zf \in StoredFlows :
          zones = (ZONE_ID :> [world_id |-> WORLD_ID, beginning |-> TRUE, time_flow |-> zf,
                               x_size |-> ZONE_X_SIZE, y_size |-> ZONE_Y_SIZE])
    /\ players = <<NewPlayer(1, 0, None, None)>>
    /\ now = 0
    /\ tret = [op |-> "load", now |-> 0, logs |-> <<>>, again |-> FALSE]
    /\ audit = <<NoAudit>>
    /\ sweeps = 0
    /\ setup_pc = "load"
    /\ loop_pc = "unstarted"
    /\ running = "none"
    /\ calls = <<>>
    /\ disk = players
    /\ ready = FALSE

\* world_service.effective_time_flow(player); tret.value is the value returned.
EffectiveTimeFlow ==
    /\ \E i \in 1..Len(players) :
          tret' = [op |-> "effective_time_flow", now |-> now, logs |-> <<>>, again |-> FALSE,
                   user |-> i, value |-> effective_time_flow(worlds, zones, players[i])]
    /\ UNCHANGED <<worlds, zones, players, now, audit, sweeps>>
    /\ UNCHANGED botVars
    /\ UNCHANGED engineVars

NextTimeFlow == Register \/ EffectiveTimeFlow

SpecTimeFlow == InitTimeFlow /\ [][NextTimeFlow]_vars

NextService == Register \/ Tick \/ ApplyOfflineTicks \/ ApplyLiveTick

\* The services from a loaded data directory.
SpecService == InitService /\ [][NextService]_vars

\* The orders in which a dictionary of n players can yield them: it yields
\* them as they were inserted, by load_all from the file and by register.
Orders(n) == {o \in [1..n -> 1..n] : \A i, j \in 1..n : o[i] = o[j] => i = j}

\* Sweeps made in a run of SpecOrder.
MaxOrderedSweeps == 2

SweepInOrder(op, real_ticks) ==
    /\ sweeps < MaxOrderedSweeps
    /\ \E order \in Orders(Len(players)), draws \in [1..Len(players) -> TribulationDraws] :
          Sweep(op, sweep_in_order(op, worlds, zones, players, now, draws, order),
                real_ticks)

OfflineSweepInOrder ==
    SweepInOrder("apply_offline_ticks", [i \in 1..Len(players) |-> elapsed_ticks(players[i])])

LiveSweepInOrder ==
    SweepInOrder("apply_live_tick", [i \in 1..Len(players) |-> live_ticks(players[i])])

NextOrder == Register \/ Tick \/ OfflineSweepInOrder \/ LiveSweepInOrder

\* The sweeps over a dictionary in any insertion order.
SpecOrder == InitService /\ [][NextOrder]_vars

(***************************************************************************)
(* HeavenAndEarthBot on the asyncio event loop.  A coroutine, once it runs, *)
(* keeps the loop until it awaits: running names it meanwhile.  setup_hook *)
(* awaits at tree.sync; the tick_loop task awaits in wait_until_ready and  *)
(* in the sleep between two iterations (discord.ext.tasks awaits the body  *)
(* of an iteration before it sleeps); apply_offline_ticks and              *)
(* apply_live_tick are plain functions with no await.  A sweep is taken    *)
(* one player at a time, then its save: calls holds the sweeps begun and   *)
(* not yet saved.                                                          *)
(***************************************************************************)
\* The coroutine a sweep runs in.
owner(op) == IF op = "apply_offline_ticks" THEN "setup_hook" ELSE "tick_loop"

NewCall(op) == [op |-> op, now |-> now, cursor |-> 1, logs |-> <<>>, changed |-> FALSE]

\* setup_hook up to the call of apply_offline_ticks: load, then
\* now = int(time.time()) and the start of the for loop.
SetupHookLoad ==
    /\ setup_pc = "load"
    /\ running = "none"
    /\ sweeps < MaxSweeps
    /\ running' = "setup_hook"
    /\ players' = [i \in 1..Len(disk) |-> clamp_position(zones, disk[i])]
    /\ setup_pc' = "offline"
    /\ calls' = Append(calls, NewCall("apply_offline_ticks"))
    /\ sweeps' = sweeps + 1
    /\ UNCHANGED <<worlds, zones, now, tret, audit, loop_pc, disk, ready>>
    /\ UNCHANGED engineVars

\* One turn of the for loop of a sweep: the player under the cursor.
PlayerTurn(k) ==
    /\ running = owner(calls[k].op)
    /\ calls[k].cursor <= Len(players)
    /\ \E d \in TribulationDraws :
          \E t \in {IF calls[k].op = "apply_offline_ticks"
                     THEN offline_turn(worlds, zones, players[calls[k].cursor],
                                       calls[k].now, d)
                     ELSE live_turn(worlds, zones, players[calls[k].cursor],
                                    calls[k].now, d)} :
              /\ players' = [players EXCEPT ![calls[k].cursor] = t.player]
              /\ calls' = [calls EXCEPT ![k] = [@ EXCEPT !.cursor = @ + 1,
                                                         !.logs = @ \o t.logs,
                                                         !.changed = @ \/ t.changed]]
    /\ UNCHANGED <<worlds, zones, now, tret, audit, sweeps, setup_pc, loop_pc, running,
                   disk, ready>>
    /\ UNCHANGED engineVars

Turn == \E k \in 1..Len(calls) : PlayerTurn(k)

\* The end of a sweep: the save (apply_live_tick saves in both branches) and
\* the return.  setup_hook goes on to tick_loop.start(); the tick_loop task
\* goes to sleep until the next iteration is due.
SaveCall(k) ==
    /\ running = owner(calls[k].op)
    /\ calls[k].cursor > Len(players)
    /\ disk' = IF calls[k].op = "apply_live_tick" \/ calls[k].logs # <<>>
                  \/ calls[k].changed
               THEN players ELSE disk
    /\ calls' = [i \in 1..(Len(calls) - 1) |-> IF i < k THEN calls[i] ELSE calls[i + 1]]
    /\ tret' = [op |-> calls[k].op, now |-> calls[k].now, logs |-> calls[k].logs,
                again |-> tret.op = calls[k].op /\ tret.now = calls[k].now]
    /\ IF calls[k].op = "apply_offline_ticks"
       THEN setup_pc' = "start" /\ UNCHANGED <<loop_pc, running>>
       ELSE loop_pc' = "sleep" /\ running' = "none" /\ UNCHANGED setup_pc
    /\ UNCHANGED <<worlds, zones, players, now, audit, sweeps, ready>>
    /\ UNCHANGED engineVars

Save == \E k \in 1..Len(calls) : SaveCall(k)

\* self.tick_loop.start(): the task is created and will run before_tick_loop.
StartTickLoop ==
    /\ setup_pc = "start"
    /\ running = "setup_hook"
    /\ setup_pc' = "sync"
    /\ loop_pc' = "before_loop"
    /\ UNCHANGED <<worlds, zones, players, now, tret, audit, sweeps, running, calls, disk,
                   ready>>
    /\ UNCHANGED engineVars

\* await self.tree.sync(...): setup_hook gives up the event loop.
SetupHookSync ==
    /\ setup_pc = "sync"
    /\ running = "setup_hook"
    /\ setup_pc' = "done"
    /\ running' = "none"
    /\ UNCHANGED <<worlds, zones, players, now, tret, audit, sweeps, loop_pc, calls, disk,
                   ready>>
    /\ UNCHANGED engineVars

\* The client connects after setup_hook has returned and becomes ready.
Ready ==
    /\ setup_pc = "done"
    /\ running = "none"
    /\ ~ready
    /\ ready' = TRUE
    /\ UNCHANGED <<worlds, zones, players, now, tret, audit, sweeps, setup_pc, loop_pc,
                   running, calls, disk>>
    /\ UNCHANGED engineVars

\* before_tick_loop: await self.wait_until_ready() returns; the first
\* iteration is due at once.
BeforeTickLoop ==
    /\ loop_pc = "before_loop"
    /\ running = "none"
    /\ ready
    /\ loop_pc' = "sleep"
    /\ UNCHANGED <<worlds, zones, players, now, tret, audit, sweeps, setup_pc, running,
                   calls, disk, ready>>
    /\ UNCHANGED engineVars

\* A faulty variant: a timer starts an iteration whether or not the one
\* before has returned and the event loop is free.
may_start_iteration_on_timer == loop_pc \in {"sleep", "iteration"}

\* The task starts an iteration when it has slept after the one before and
\* the event loop is free.
may_start_iteration == loop_pc = "sleep" /\ running = "none"

\* tick_loop: an iteration begins with the call of apply_live_tick.
TickLoopIteration ==
    /\ may_start_iteration
    /\ sweeps < MaxSweeps
    /\ loop_pc' = "iteration"
    /\ running' = "tick_loop"
    /\ calls' = Append(calls, NewCall("apply_live_tick"))
    /\ sweeps' = sweeps + 1
    /\ UNCHANGED <<worlds, zones, players, now, tret, audit, setup_pc, disk, ready>>
    /\ UNCHANGED engineVars

\* /register: the handler runs when the client is ready and the event loop
\* is free, and has saved before its first await.
RegisterCommand == ready /\ running = "none" /\ Register

(***************************************************************************)
(* The commands that move players between and within zones.  A handler     *)
(* runs when the client is ready and the event loop is free, and reaches   *)
(* its first await without giving the loop up.                             *)
(***************************************************************************)
MaxSteps == 2

Buttons == {<<0, -1>>, <<-1, 0>>, <<1, 0>>, <<0, 1>>}

Command(op) ==
    /\ ready
    /\ running = "none"
    /\ tret' = [op |-> op, now |-> now, logs |-> <<>>, again |-> FALSE]
    /\ UNCHANGED <<now, audit, sweeps, setup_pc, loop_pc, running, calls, ready>>
    /\ UNCHANGED engineVars

\* /travel: send_travel_panel for the caller's player.
TravelCommand ==
    /\ Command("travel")
    /\ \E i \in 1..Len(players), in_channel \in BOOLEAN :
          \E r \in {send_travel_panel(worlds, zones, players[i], in_channel)} :
              /\ players' = [players EXCEPT ![i] = r.player]
              /\ disk' = IF r.saved THEN players' ELSE disk
    /\ UNCHANGED <<worlds, zones>>

\* A button of the travel panel.  The panel was sent by a /travel that
\* reached its save, and a /travel of a player with a valid location in the
\* right channel changes nothing but the saved players.
MoveButton ==
    /\ Command("move")
    /\ \E i \in 1..Len(players), d \in Buttons :
          /\ players[i].steps_travelled < MaxSteps
          /\ \E r \in {move(worlds, zones, players[i], d[1], d[2])} :
                /\ players' = [players EXCEPT ![i] = r.player]
                /\ disk' = IF r.saved THEN players' ELSE disk
    /\ UNCHANGED <<worlds, zones>>

Without(m, ids) == [k \in DOMAIN m \ ids |-> m[k]]

\* /delete_zone: WorldService.delete_zone with the player service.
DeleteZoneCommand ==
    /\ Command("delete_zone")
    /\ \E zone_id \in DOMAIN zones :
          /\ zones' = Without(zones, {zone_id})
          /\ \E r \in {handle_zone_deleted(worlds, zones', players, zone_id)} :
                /\ players' = r.players
                /\ disk' = IF r.changed THEN r.players ELSE disk
    /\ UNCHANGED worlds

\* /delete_world: WorldService.delete_world with the player service.
DeleteWorldCommand ==
    /\ Command("delete_world")
    /\ \E world_id \in DOMAIN worlds :
          \E removed \in {{z \in DOMAIN zones : zones[z].world_id = world_id}} :
              /\ worlds' = Without(worlds, {world_id})
              /\ zones' = Without(zones, removed)
              /\ \E r \in {handle_world_deleted(worlds', zones', players, world_id,
                                                 removed)} :
                    /\ players' = r.players
                    /\ disk' = IF r.changed THEN r.players ELSE disk

NextBot ==
    \/ Tick
    \/ RegisterCommand
    \/ SetupHookLoad
    \/ Turn
    \/ Save
    \/ StartTickLoop
    \/ SetupHookSync
    \/ Ready
    \/ BeforeTickLoop
    \/ TickLoopIteration

\* The bot from a loaded data directory.
SpecBot == InitService /\ [][NextBot]_vars

\* The clock stands still: a live cycle applies its one tick all the same.
NextCommands ==
    \/ RegisterCommand
    \/ SetupHookLoad
    \/ Turn
    \/ Save
    \/ StartTickLoop
    \/ SetupHookSync
    \/ Ready
    \/ BeforeTickLoop
    \/ TickLoopIteration
    \/ TravelCommand
    \/ MoveButton
    \/ DeleteZoneCommand
    \/ DeleteWorldCommand

\* The bot with its travel and deletion commands.
SpecCommands == InitService /\ [][NextCommands]_vars

(***************************************************************************)
(* Properties of the engine.                                               *)
(***************************************************************************)
NextRealmExists(c) == IndexOf(REALM_ORDER, c.realm) + 1 < Len(REALM_ORDER)

\* C1: from a fresh character, after any add_exp and
\* attempt_foundation_breakthrough calls, exp is never negative, and outside
\* the first-realm plateau and the final cap exp < required_exp().
C1_ExpBelowThreshold ==
    /\ cult.exp >= 0
    /\ (~is_qi_condensation_cap(cult) /\ ~is_maxed_out(cult))
          => cult.exp < required_exp(cult)

\* An add_exp that rolled over several thresholds and stopped short of a cap
\* with exp left over.
C1_Witness ==
    /\ ret.op = "add_exp"
    /\ Len(ret.notes) >= 2
    /\ ~is_qi_condensation_cap(cult)
    /\ ~is_maxed_out(cult)
    /\ cult.exp > 0

\* C2: no add_exp, attempt_foundation_breakthrough or breakthrough_realm call
\* lowers qi_quality in the order Faint < Thin < ... < Extremely dense.
C2_QualityNeverDecreases ==
    [][IndexOf(QiQualities, cult'.qi_quality) >= IndexOf(QiQualities, cult.qi_quality)]_vars

\* A character whose qi was refined to Thin has entered Foundation
\* Establishment by an attempt or by a call of breakthrough_realm.
C2_Witness ==
    /\ cult.qi_quality = "Thin"
    /\ cult.realm = FOUNDATION_ESTABLISHMENT
    /\ ret.op \in {"attempt", "breakthrough_realm"}

\* C3: attempt_foundation_breakthrough at the plateau: with draw <= chance
\* the character enters Foundation Establishment at Initial, layer 1, exp 0,
\* foundation_progress 0 and the call reports success; with draw > chance it
\* stays in Qi Condensation at Late, layer 15, exp 0, foundation_progress 0
\* and the call reports failure.
C3_AttemptOutcomes ==
    [][(ret'.op = "attempt" /\ is_qi_condensation_cap(cult)) =>
          IF DLe(ret'.arg, breakthrough_chance(cult))
          THEN /\ cult'.realm = FOUNDATION_ESTABLISHMENT
               /\ cult'.stage = "Initial"
               /\ cult'.layer = 1
               /\ cult'.exp = 0
               /\ cult'.foundation_progress = DZero
               /\ ret'.ok
          ELSE /\ cult'.realm = QI_CONDENSATION
               /\ cult'.stage = "Late"
               /\ cult'.layer = max_qi_layers
               /\ cult'.exp = 0
               /\ cult'.foundation_progress = DZero
               /\ ~ret'.ok]_vars

\* A failed attempt: the character slipped back to Late of layer 15.
C3_Witness ==
    /\ ret.op = "attempt"
    /\ ret.notes = <<"breakthrough failed">>
    /\ DLt(DZero, ret.arg)
    /\ cult.stage = "Late"
    /\ cult.layer = max_qi_layers

\* C4: from the plateau with an empty bar, add_exp calls leave
\* foundation_progress at most 1.0 and exactly 1.0 once the ticks add up to
\* FOUNDATION_FILL_TICKS, and exactly one call returns "Foundation bar
\* complete": the one that brings the bar to 1.0.
C4_BarFullAtFillTicks ==
    /\ DLe(cult.foundation_progress, FOne)
    /\ fillTicks >= FOUNDATION_FILL_TICKS => cult.foundation_progress = FOne
    /\ completeCount = IF cult.foundation_progress = FOne THEN 1 ELSE 0

C6_PlateauExpClamped ==
    [][(ret'.op = "add_exp" /\ is_qi_condensation_cap(cult)) =>
          /\ cult'.exp = DMin(cult.exp + cult.cultivation_rate * ret'.arg,
                              required_exp(cult))
          /\ cult'.exp >= cult.exp]_vars

(***************************************************************************)
(* Properties of the tick sweeps.                                          *)
(***************************************************************************)
\* C7: apply_offline_ticks moves the last_tick_timestamp of a player not
\* ahead of the clock forward by ((now - last) div 60) * 60 and not to now,
\* so the remainder below one tick stays for the next call.
C7_OfflineTimestampAdvance ==
    [][tret'.op = "apply_offline_ticks" =>
          \A i \in 1..Len(players) :
             players[i].last_tick_timestamp <= now =>
                players'[i].last_tick_timestamp =
                    players[i].last_tick_timestamp
                    + ((now - players[i].last_tick_timestamp) \div SECONDS_PER_TICK)
                      * SECONDS_PER_TICK]_vars

\* last = 0 and now = 150: two real ticks, and the timestamp stops at 120.
C7_Witness ==
    /\ tret.op = "apply_offline_ticks"
    /\ now = 150
    /\ players[1].last_tick_timestamp = 120
    /\ players[1].hours_cultivated = 48
    /\ audit[1].real_ticks = 2

\* C8: ticks are conserved: tick_buffer is in [0,1) and the ticks handed to
\* the engine plus the tick_buffer equal the sum of real_ticks * time_flow
\* over all applications.
C8_TicksConserved ==
    \A i \in 1..Len(players) :
       /\ DLe(DZero, players[i].tick_buffer)
       /\ DLt(players[i].tick_buffer, FOne)
       /\ ExactAdd(DFromNat(audit[i].applied), players[i].tick_buffer) = audit[i].due

\* C9: a second apply_offline_ticks at the same now changes no player and
\* returns no notes.
C9_OfflineIdempotent ==
    [][(tret'.op = "apply_offline_ticks" /\ tret'.again) =>
          (players' = players /\ tret'.logs = <<>>)]_vars

\* The second catch-up in a row at one instant, after the first one applied
\* ticks.
C9_Witness ==
    /\ tret.op = "apply_offline_ticks"
    /\ tret.again
    /\ now >= SECONDS_PER_TICK
    /\ \E i \in 1..Len(players) :
          /\ players[i].hours_cultivated > 0
          /\ now - players[i].last_tick_timestamp < SECONDS_PER_TICK

\* C10 as stated: a second apply_live_tick at the same now, with no time
\* elapsed for any player, changes no player's exp, stage, layer,
\* foundation_progress, tick_buffer or last_tick_timestamp.
C10_LiveIdempotent ==
    [][(/\ tret'.op = "apply_live_tick"
        /\ tret'.again
        /\ \A i \in 1..Len(players) : players[i].last_tick_timestamp = now) =>
          \A i \in 1..Len(players) :
             /\ players'[i].cultivation.exp = players[i].cultivation.exp
             /\ players'[i].cultivation.stage = players[i].cultivation.stage
             /\ players'[i].cultivation.layer = players[i].cultivation.layer
             /\ players'[i].cultivation.foundation_progress =
                   players[i].cultivation.foundation_progress
             /\ players'[i].tick_buffer = players[i].tick_buffer
             /\ players'[i].last_tick_timestamp = players[i].last_tick_timestamp]_vars

\* C10, amended: a live tick for a player with no time elapsed counts one
\* real tick: with total = tick_buffer + time_flow, the engine gets
\* floor(total) ticks, tick_buffer becomes total - floor(total), the
\* timestamp stays at now, and the player is not as it was.
C10_LiveTickAlwaysAdvances ==
    [][tret'.op = "apply_live_tick" =>
          \A i \in 1..Len(players) :
             players[i].last_tick_timestamp = now =>
                LET total == FAdd(players[i].tick_buffer,
                                  effective_time_flow(worlds, zones, players[i]))
                IN  /\ players'[i].hours_cultivated =
                          players[i].hours_cultivated + 24 * FTrunc(total)
                    /\ players'[i].tick_buffer = ExactSub(total, DFromNat(FTrunc(total)))
                    /\ players'[i].last_tick_timestamp = now
                    /\ players'[i] # players[i]]_vars

\* Two live ticks in a row at one instant, each of which applied a tick.
C10_Witness ==
    /\ tret.op = "apply_live_tick"
    /\ tret.again
    /\ \E i \in 1..Len(players) :
          /\ players[i].last_tick_timestamp = now
          /\ audit[i].real_ticks = 1
          /\ audit[i].applied >= 2
          /\ players[i].cultivation.exp >= 2

(***************************************************************************)
(* Further properties of the engine.                                       *)
(***************************************************************************)
\* C11: from a fresh character, after any add_exp and
\* attempt_foundation_breakthrough calls, foundation_progress lies in [0,1]
\* and is 0 unless the character is at (Qi Condensation, layer 15, Peak);
\* every attempt made at the plateau leaves it at 0, on success and on failure.
C11_FoundationProgressOnlyAtPlateau ==
    /\ [](/\ DLe(DZero, cult.foundation_progress)
          /\ DLe(cult.foundation_progress, FOne)
          /\ (~(/\ cult.realm = REALM_ORDER[1]
                /\ cult.layer = max_qi_layers
                /\ cult.stage = "Peak"))
                => cult.foundation_progress = DZero)
    /\ [][(ret'.op = "attempt" /\ foundation_bar_active(cult)) =>
             cult'.foundation_progress = DZero]_vars

\* An attempt that succeeded on the draw 0.5, so the bar stood near half or
\* more: the character is in the next realm and the bar is empty.
C11_Witness ==
    /\ ret.op = "attempt"
    /\ ret.ok
    /\ ret.arg = Half
    /\ cult.realm = FOUNDATION_ESTABLISHMENT
    /\ cult.foundation_progress = DZero

\* C12: add_exp(ceil(required_exp() / cultivation_rate)) from (Qi
\* Condensation, layer 5, Peak, exp 0, Faint) ends at layer 6, Initial, with
\* qi_quality Thin; and any add_exp that takes a character in Qi Condensation
\* with quality below Thin from a layer under 6 to layer 6 or more leaves
\* quality Thin and cultivation_rate at Thin's rate, and returns the note of
\* the advance to Initial of layer 6 naming Thin.
C12_LayerSixRefinesQi ==
    [][ret'.op = "add_exp" =>
          /\ (/\ cult.realm = REALM_ORDER[1]
              /\ cult.layer = 5
              /\ cult.stage = "Peak"
              /\ cult.exp = 0
              /\ cult.qi_quality = "Faint"
              /\ ret'.arg = ceil_required_ticks(cult))
                => /\ cult'.layer = 6
                   /\ cult'.stage = "Initial"
                   /\ cult'.qi_quality = "Thin"
          /\ (/\ cult.realm = REALM_ORDER[1]
              /\ cult.layer < 6
              /\ cult'.layer >= 6
              /\ IndexOf(QiQualities, cult.qi_quality) < IndexOf(QiQualities, "Thin"))
                => /\ cult'.qi_quality = "Thin"
                   /\ cult'.cultivation_rate = 2 ^ IndexOf(QiQualities, "Thin")
                   /\ \E i \in 1..Len(ret'.notes) :
                         /\ ret'.notes[i].kind = "advanced, qi refined"
                         /\ ret'.notes[i].label = <<"Initial", 6>>
                         /\ ret'.notes[i].qi_quality = "Thin"]_vars

\* The 2500 ticks of the Peak of layer 5 at rate 1 were applied: layer 6,
\* Initial, nothing left over, and the one note names Thin.
C12_Witness ==
    /\ ret.op = "add_exp"
    /\ ret.arg = 2500
    /\ cult.realm = QI_CONDENSATION
    /\ cult.layer = 6
    /\ cult.stage = "Initial"
    /\ cult.exp = 0
    /\ cult.qi_quality = "Thin"
    /\ cult.cultivation_rate = 2
    /\ Len(ret.notes) = 1
    /\ ret.notes[1].kind = "advanced, qi refined"

\* C13: for every realm, layer in 1..15 and stage, required_exp() is
\* (realm_index + 1) * 100 * layer * (stage_index + 1), the indices counted
\* from 0 in REALM_ORDER and STAGE_ORDER: the layer multiplies the threshold
\* in every realm.
C13_RequiredExpFormula ==
    ret.op = "required_exp" =>
        /\ cult.layer \in 1..15
        /\ \E realm_index \in 0..(Len(REALM_ORDER) - 1),
              stage_index \in 0..(Len(STAGE_ORDER) - 1) :
              /\ REALM_ORDER[realm_index + 1] = cult.realm
              /\ STAGE_ORDER[stage_index + 1] = cult.stage
              /\ ret.value = (realm_index + 1) * 100 * cult.layer * (stage_index + 1)

\* Middle stage at layer 7 in Foundation Establishment: 200 * 7 * 3.
C13_Witness ==
    /\ ret.op = "required_exp"
    /\ cult.realm = FOUNDATION_ESTABLISHMENT
    /\ cult.layer = 7
    /\ cult.stage = "Middle"
    /\ ret.value = 4200

\* A call of add_exp advanced a stage at least once: each turn of its loop
\* appends one note, and the only other note is that of the full bar.
StageAdvanced(notes) ==
    \E i \in 1..Len(notes) : notes[i].kind # "foundation bar complete"

\* n >= t for a tick count n and a value t of ticks_until_breakthrough().
AtLeastTicks(n, t) == ~t.inf /\ DLe(t.x, DFromNat(n))

\* C14: ticks_until_breakthrough() is (1 - foundation_progress) *
\* FOUNDATION_FILL_TICKS at the plateau, infinite at the final cap, and
\* otherwise max(required_exp() - exp, 0) / cultivation_rate; away from the
\* caps add_exp(n) advances a stage exactly when n is at least that many
\* ticks, and at the plateau add_exp(n) leaves foundation_progress at 1.0
\* exactly when n is at least that many ticks.
C14_TicksUntilBreakthrough ==
    /\ [](\E t \in {ticks_until_breakthrough(cult)} :
            IF is_qi_condensation_cap(cult)
            THEN t = Finite(FMul(FSub(FOne, cult.foundation_progress),
                                 DFromNat(FOUNDATION_FILL_TICKS)))
            ELSE IF cult.realm = REALM_ORDER[Len(REALM_ORDER)] /\ cult.stage = "Peak"
            THEN t = Infinity
            ELSE /\ ~t.inf
                 /\ ExactMul(t.x, DFromNat(cult.cultivation_rate))
                       = DFromNat(IF required_exp(cult) > cult.exp
                                  THEN required_exp(cult) - cult.exp ELSE 0))
    /\ [][ret'.op = "add_exp" =>
             \E t \in {ticks_until_breakthrough(cult)} :
                IF is_qi_condensation_cap(cult)
                THEN (cult'.foundation_progress = FOne) <=> AtLeastTicks(ret'.arg, t)
                ELSE IF cult.realm = REALM_ORDER[Len(REALM_ORDER)] /\ cult.stage = "Peak"
                THEN TRUE
                ELSE StageAdvanced(ret'.notes) <=> AtLeastTicks(ret'.arg, t)]_vars

\* C15: breakthrough_chance() is min(0.10 + 0.90 * foundation_progress, 1.0)
\* at the plateau and 0 elsewhere; with foundation_progress = 1.0 it is 1.0,
\* and an attempt then succeeds whatever random() returns in [0,1).
C15_ChanceFromProgress ==
    /\ [](\E chance \in {breakthrough_chance(cult)} :
            IF cult.realm = REALM_ORDER[1] /\ cult.layer = max_qi_layers
               /\ cult.stage = "Peak"
            THEN /\ chance = FMin(FAdd(FDivNat(10, 100),
                                       FMul(FDivNat(90, 100), cult.foundation_progress)),
                                  FOne)
                 /\ cult.foundation_progress = FOne => chance = FOne
            ELSE chance = DZero)
    /\ [][(/\ ret'.op = "attempt"
           /\ is_qi_condensation_cap(cult)
           /\ cult.foundation_progress = FOne) =>
             /\ DLe(DZero, ret'.arg) /\ DLt(ret'.arg, FOne)
             /\ ret'.ok
             /\ cult'.realm = FOUNDATION_ESTABLISHMENT]_vars

\* An attempt that succeeded on the largest draw below 1.
C15_Witness ==
    /\ ret.op = "attempt"
    /\ ret.arg = BelowOne
    /\ ret.ok
    /\ cult.realm = FOUNDATION_ESTABLISHMENT

\* C16: attempt_foundation_breakthrough away from the plateau returns
\* succeeded = False with the message that the character is not ready, calls
\* random() not at all, and leaves realm, stage, layer, exp, qi_quality,
\* cultivation_rate and foundation_progress as they were.
C16_AttemptOffPlateauNoEffect ==
    [][(ret'.op = "attempt" /\ ~foundation_bar_active(cult)) =>
          /\ ~ret'.ok
          /\ ret'.notes = <<"not ready">>
          /\ ~ret'.drew
          /\ cult'.realm = cult.realm
          /\ cult'.stage = cult.stage
          /\ cult'.layer = cult.layer
          /\ cult'.exp = cult.exp
          /\ cult'.qi_quality = cult.qi_quality
          /\ cult'.cultivation_rate = cult.cultivation_rate
          /\ cult'.foundation_progress = cult.foundation_progress]_vars

\* A refused attempt of a character part of the way through Qi
\* Condensation, for a draw of 0 that an attempt at the plateau would win.
C16_Witness ==
    /\ ret.op = "attempt"
    /\ ret.notes = <<"not ready">>
    /\ ret.arg = DZero
    /\ ~ret.drew
    /\ cult.realm = QI_CONDENSATION
    /\ cult.layer > 1
    /\ cult.exp > 0

\* C17: the final cap (Foundation Establishment, the last realm, at Peak) is
\* absorbing: add_exp and attempt_foundation_breakthrough leave realm, stage,
\* layer, qi_quality and foundation_progress as they were, add_exp returns
\* no notes, and exp never exceeds required_exp(), never decreases, and
\* stays at required_exp() once it is there.
C17_FinalCapAbsorbing ==
    /\ []((cult.realm = REALM_ORDER[Len(REALM_ORDER)] /\ cult.stage = "Peak")
             => cult.exp <= required_exp(cult))
    /\ [][(/\ cult.realm = REALM_ORDER[Len(REALM_ORDER)]
           /\ cult.stage = "Peak"
           /\ ret'.op \in {"add_exp", "attempt"}) =>
             /\ cult'.realm = cult.realm
             /\ cult'.stage = cult.stage
             /\ cult'.layer = cult.layer
             /\ cult'.qi_quality = cult.qi_quality
             /\ cult'.foundation_progress = cult.foundation_progress
             /\ ret'.op = "add_exp" => ret'.notes = <<>>
             /\ cult'.exp >= cult.exp
             /\ cult'.exp <= required_exp(cult)
             /\ (ret'.op = "add_exp"
                  /\ cult.exp + cult.cultivation_rate * ret'.arg < required_exp(cult))
                   => cult'.exp = cult.exp + cult.cultivation_rate * ret'.arg
             /\ cult.exp = required_exp(cult) => cult'.exp = required_exp(cult)]_vars

\* add_exp(1000) at the final cap returned no notes and left exp at
\* required_exp().
C17_Witness ==
    /\ ret.op = "add_exp"
    /\ ret.arg = 1000
    /\ ret.notes = <<>>
    /\ cult.realm = FOUNDATION_ESTABLISHMENT
    /\ cult.stage = "Peak"
    /\ cult.exp = required_exp(cult)

\* C18: in every state after construction cultivation_rate is the per-tick
\* rate of qi_quality (1, 2, 4, 8, 16, 32, 64, 128 from Faint to Extremely
\* dense) times the modifier of qi_type, which is 1.0; an operation that
\* changes qi_quality returns with the rate of the new quality.
C18_RateFollowsQuality ==
    /\ [](\E rates \in {("Faint" :> 1) @@ ("Thin" :> 2) @@ ("Steady" :> 4)
                           @@ ("Thick" :> 8) @@ ("Condensed" :> 16)
                           @@ ("Highly Concentrated" :> 32) @@ ("Superdense" :> 64)
                           @@ ("Extremely dense" :> 128)} :
            cult.cultivation_rate = rates[cult.qi_quality] * 1)
    /\ [][cult'.qi_quality # cult.qi_quality =>
             /\ cult'.cultivation_rate # cult.cultivation_rate
             /\ cult'.cultivation_rate = qi_gathering_rate(cult')]_vars

\* An add_exp from the Peak of layer 5 that refined Faint qi to Thin and
\* went on at the rate of Thin.
C18_Witness ==
    /\ ret.op = "add_exp"
    /\ HasNote(ret.notes, "advanced, qi refined")
    /\ cult.layer = 6
    /\ cult.qi_quality = "Thin"
    /\ cult.cultivation_rate = 2

\* The stage and the layer a call of add_exp in Qi Condensation had reached
\* after its i-th note (each note carries the label of the stage reached);
\* before the first note they are those of the object c the call began with.
StageAfter(c, notes, i) == IF i = 0 THEN c.stage ELSE notes[i].label[1]

LayerAfter(c, notes, i) == IF i = 0 THEN c.layer ELSE notes[i].label[2]

\* C19: layer is within 1..15 in every state; only add_exp in the first
\* realm raises it, by exactly 1 at a stage-advance, and that stage-advance
\* leaves Peak below layer 15 for Initial; add_exp in a later realm leaves
\* layer as it was.
C19_LayerStepsByOne ==
    /\ [](cult.layer \in 1..15)
    /\ [][cult'.layer > cult.layer =>
             /\ ret'.op = "add_exp"
             /\ cult.realm = REALM_ORDER[1]
             /\ cult'.realm = REALM_ORDER[1]]_vars
    /\ [][(ret'.op = "add_exp" /\ cult.realm # REALM_ORDER[1]) =>
             cult'.layer = cult.layer]_vars
    /\ [][(ret'.op = "add_exp" /\ cult.realm = REALM_ORDER[1]) =>
             /\ LayerAfter(cult, ret'.notes, Len(ret'.notes)) = cult'.layer
             /\ \A i \in 1..Len(ret'.notes) :
                   \/ /\ LayerAfter(cult, ret'.notes, i)
                           = LayerAfter(cult, ret'.notes, i - 1)
                      /\ ~(/\ StageAfter(cult, ret'.notes, i - 1) = "Peak"
                           /\ LayerAfter(cult, ret'.notes, i - 1) < 15
                           /\ ret'.notes[i].kind # "foundation bar complete")
                   \/ /\ LayerAfter(cult, ret'.notes, i)
                           = LayerAfter(cult, ret'.notes, i - 1) + 1
                      /\ StageAfter(cult, ret'.notes, i - 1) = "Peak"
                      /\ LayerAfter(cult, ret'.notes, i - 1) < 15
                      /\ StageAfter(cult, ret'.notes, i) = "Initial"]_vars

\* add_exp(5000) on a fresh character: eleven stage-advances, two of them
\* past a Peak, end at layer 3.
C19_Witness ==
    /\ ret.op = "add_exp"
    /\ ret.arg = 5000
    /\ Len(ret.notes) = 11
    /\ cult.realm = QI_CONDENSATION
    /\ cult.layer = 3

(***************************************************************************)
(* Properties of the bot's scheduling.                                     *)
(***************************************************************************)
\* C20: tick sweeps never overlap: at most one sweep is in progress (begun
\* and not yet saved) at any time; the first live iteration begins only
\* after the catch-up of setup_hook has been saved; and an iteration begins
\* only when no sweep is in progress.
C20_TickCyclesNeverOverlap ==
    /\ [](Len(calls) <= 1)
    /\ []((loop_pc \in {"sleep", "iteration"}
            \/ \E k \in 1..Len(calls) : calls[k].op = "apply_live_tick")
              => (/\ setup_pc \in {"sync", "done"}
                  /\ \A k \in 1..Len(calls) : calls[k].op # "apply_offline_ticks"))
    /\ [][Len(calls') > Len(calls) => calls = <<>>]_vars

\* The second live iteration has updated the first of two players and not
\* yet the second, the catch-up and the first iteration being over.
C20_Witness ==
    /\ Len(calls) = 1
    /\ calls[1].op = "apply_live_tick"
    /\ calls[1].cursor = 2
    /\ Len(players) = 2
    /\ sweeps = 3
    /\ tret.op = "apply_live_tick"

(***************************************************************************)
(* Properties of persistence and of the commands.                          *)
(***************************************************************************)
\* C21: every operation that mutates a player saves all players after its
\* last mutation and before it returns, so between operations (the event
\* loop is free) the saved players are the players in memory; in a tick
\* sweep the save comes once, when every player has had its turn.
C21_SavedBetweenOperations ==
    /\ [](running = "none" => disk = players)
    /\ [][running # "none" /\ disk' # disk
            => \E k \in 1..Len(calls) : calls[k].cursor > Len(players)]_vars


\* C22: for every player reached from a registration by tick applications
\* and breakthrough attempts, from_dict(to_dict(player)) has the same realm,
\* stage, layer, exp, qi_quality, cultivation_rate, foundation_progress,
\* tick_buffer and last_tick_timestamp.
C22_PersistenceRoundTrip ==
    \A i \in 1..Len(players) :
        \E q \in {from_dict(to_dict(players[i]))} :
            /\ \A f \in {"realm", "stage", "layer", "exp", "qi_quality", "cultivation_rate",
                         "foundation_progress"} :
                  q.cultivation[f] = players[i].cultivation[f]
            /\ q.tick_buffer = players[i].tick_buffer
            /\ q.last_tick_timestamp = players[i].last_tick_timestamp

\* A player without a location (to_dict drops its world_id and zone_id) and a
\* player who broke through to Foundation Establishment, refined qi and a
\* fractional tick_buffer.
C22_Witness ==
    /\ Len(players) = 2
    /\ players[1].world_id = None
    /\ "world_id" \notin DOMAIN to_dict(players[1])
    /\ players[2].cultivation.realm = FOUNDATION_ESTABLISHMENT
    /\ players[2].cultivation.qi_quality # "Faint"
    /\ players[2].tick_buffer = Half
    /\ players[2].last_tick_timestamp > 0


\* C23: loading a CultivationProgress never fails on bad persisted values:
\* an unknown realm, stage, qi_type or qi_quality string falls back to the
\* first member (the quality then refined as the layer demands),
\* foundation_progress ends in [0,1], layer in 1..15, and loading the loaded
\* state again changes nothing.
C23_LoadNeverFails ==
    ret.op \in {"load", "reload"} =>
        /\ ret.ok
        /\ ret.arg.realm.str \notin Values(REALM_ORDER) => cult.realm = QI_CONDENSATION
        /\ ret.arg.stage.str \notin Values(STAGE_ORDER) => cult.stage = "Initial"
        /\ ret.arg.qi_type.str \notin QiTypes => cult.qi_type = "Spiritual Qi"
        /\ ret.arg.qi_quality.str \notin Values(QiQualities)
              => cult.qi_quality = IF cult.layer >= 6 THEN "Thin" ELSE "Faint"
        /\ cult.foundation_progress # NaN
        /\ DLe(cult.foundation_progress, FOne)
        /\ cult.layer \in 1..max_qi_layers
        /\ post_init_persisted(persisted(cult)) = ret.value


\* What a world or zone contributes to the multiplier: 1.0 if it is missing
\* or its stored time_flow is <= 0, else its time_flow.
contribution(m, id) ==
    IF id = None \/ id \notin DOMAIN m THEN FOne
    ELSE IF DLe(m[id].time_flow, DZero) THEN FOne
    ELSE m[id].time_flow

\* C24: the time-flow multiplier of a player is the (float) product of the
\* contributions of its world and its zone, and is strictly positive for
\* every player and every world/zone configuration.
C24_TimeFlowPositive ==
    tret.op = "effective_time_flow" =>
        /\ tret.value = FMulUnderflow(contribution(worlds, players[tret.user].world_id),
                                      contribution(zones, players[tret.user].zone_id))
        /\ DLt(DZero, tret.value)


(***************************************************************************)
(* Further properties of add_exp and advance_stage.                        *)
(***************************************************************************)
\* C25: add_exp does not invoke advance_stage on a character that is at the
\* plateau when the call starts: the note "Foundation bar awakened", returned
\* by the call that reached the plateau, is returned by no later add_exp
\* while the character stays there.
C25_AwakenedNoteOnce ==
    [][(ret'.op = "add_exp" /\ is_qi_condensation_cap(cult))
          => ~HasNote(ret'.notes, "foundation bar awakened")]_vars


\* The note of the stage-advance that arrives at a cap: Peak of the 15th
\* layer of Qi Condensation, or Peak of the last realm.
ArrivesAtCap(note) ==
    /\ note.kind = "advanced"
    /\ note.label[1] = "Peak"
    /\ \/ note.realm = REALM_ORDER[Len(REALM_ORDER)]
       \/ note.realm = QI_CONDENSATION /\ note.label[2] = max_qi_layers

\* C26: an add_exp whose rollover loop arrives at the first-realm plateau or
\* at the final cap stops there: the call ends in that cap state with
\* exp <= required_exp(), and no stage, layer or realm change follows the
\* arrival (only foundation-bar notes of the closing update do).
C26_NoRolloverPastCap ==
    [][ret'.op = "add_exp" =>
          \A i \in 1..Len(ret'.notes) :
              ArrivesAtCap(ret'.notes[i]) =>
                  /\ is_qi_condensation_cap(cult') \/ is_maxed_out(cult')
                  /\ cult'.realm = ret'.notes[i].realm
                  /\ cult'.exp <= required_exp(cult')
                  /\ \A j \in (i + 1)..Len(ret'.notes) :
                        ret'.notes[j].kind = "foundation bar complete"]_vars

\* add_exp(200000) has carried a character over the whole first realm: the
\* arrival at the plateau is in its log, and exp is the threshold.
C26_Witness ==
    /\ ret.op = "add_exp"
    /\ ret.arg = 200000
    /\ \E i \in 1..Len(ret.notes) : ArrivesAtCap(ret.notes[i])
    /\ is_qi_condensation_cap(cult)
    /\ cult.exp = required_exp(cult)


\* C27: advance_stage from a stage other than Peak moves stage to the next
\* element of STAGE_ORDER and leaves realm, layer, exp, qi_quality,
\* cultivation_rate and foundation_progress as they were.
C27_StageAdvanceFrame ==
    [][(ret'.op = "advance_stage" /\ cult.stage # "Peak") =>
          /\ cult'.stage = STAGE_ORDER[IndexOf(STAGE_ORDER, cult.stage) + 2]
          /\ \A f \in {"realm", "layer", "exp", "qi_quality", "cultivation_rate",
                       "foundation_progress"} : cult'[f] = cult[f]]_vars

\* advance_stage has moved a character with exp left over to Middle, in a
\* layer above the first.
C27_Witness ==
    /\ ret.op = "advance_stage"
    /\ HasNote(ret.notes, "advanced")
    /\ cult.stage = "Middle"
    /\ cult.layer > 1
    /\ cult.exp > 0


\* C28: add_exp on a character at the plateau leaves realm, stage, layer,
\* qi_quality and cultivation_rate unchanged whatever the tick count, and
\* returns foundation-bar notes only: no "Advanced to ..." and no tribulation
\* note.
C28_PlateauAddExpFrame ==
    [][(ret'.op = "add_exp" /\ is_qi_condensation_cap(cult)) =>
          /\ \A f \in {"realm", "stage", "layer", "qi_quality", "cultivation_rate"} :
                cult'[f] = cult[f]
          /\ \A i \in 1..Len(ret'.notes) :
                ret'.notes[i].kind \in {"foundation bar awakened",
                                        "foundation bar complete"}]_vars

\* add_exp(5000) from the plateau has returned: its log begins with the
\* plateau branch of advance_stage, not with an arrival from below.
C28_Witness ==
    /\ ret.op = "add_exp"
    /\ ret.arg = 5000
    /\ ret.notes # <<>>
    /\ ret.notes[1].kind = "foundation bar awakened"
    /\ is_qi_condensation_cap(cult)


(***************************************************************************)
(* Further properties of the tick sweeps.                                  *)
(***************************************************************************)
\* C29: in every tick application (a player's turn of a sweep with its
\* real_ticks) apply_ticks, and so the engine's add_exp, is called only with
\* ticks_to_apply > 0, and not called leaves the cultivation alone;
\* last_tick_timestamp is advanced by real_ticks * SECONDS_PER_TICK and then
\* clamped, so that it is <= now when the application returns.
C29_TickApplication ==
    [][sweeps' # sweeps =>
          \A i \in 1..Len(players) :
              audit'[i].real_ticks > 0 =>
                  /\ \A k \in 1..Len(tret'.applied[i]) : tret'.applied[i][k] > 0
                  /\ tret'.applied[i] = <<>>
                        => players'[i].cultivation = players[i].cultivation
                  /\ players'[i].last_tick_timestamp
                        = DMin(players[i].last_tick_timestamp
                                   + audit'[i].real_ticks * SECONDS_PER_TICK,
                               now)
                  /\ players'[i].last_tick_timestamp <= now]_vars

\* A live sweep gave one player no tick to apply (its time flow is below 1)
\* and the other some, and moved a timestamp that would have passed the
\* clock back to it.
C29_Witness ==
    /\ tret.op = "apply_live_tick"
    /\ Len(players) = 2
    /\ \E i \in 1..2 : tret.applied[i] = <<>> /\ audit[i].real_ticks > 0
    /\ \E i \in 1..2 : tret.applied[i] # <<>>
    /\ \E i \in 1..2 : /\ players[i].last_tick_timestamp = now
                       /\ now % SECONDS_PER_TICK # 0


\* The ticks a player was given so far plus its tick_buffer, exactly.
ticks_held(a, player) == ExactAdd(DFromNat(a.applied), player.tick_buffer)

\* C30: every apply_live_tick call uses real_ticks = max(elapsed div
\* SECONDS_PER_TICK, 1) >= 1 for every player, so every live cycle advances
\* every player: ticks applied so far + tick_buffer grows by
\* real_ticks * time_flow > 0, and with time_flow >= 1 at least one
\* cultivation tick is applied, however little time has elapsed.
C30_LiveCycleAdvances ==
    [][tret'.op = "apply_live_tick" /\ sweeps' # sweeps =>
          \A i \in 1..Len(players) :
              \E flow \in {effective_time_flow(worlds, zones, players[i])} :
                  /\ audit'[i].real_ticks = live_ticks(players[i])
                  /\ audit'[i].real_ticks >= 1
                  /\ DLt(DZero, flow)
                  /\ ticks_held(audit'[i], players'[i])
                        = ExactAdd(ticks_held(audit[i], players[i]),
                                   ExactMul(DFromNat(audit'[i].real_ticks), flow))
                  /\ DLe(FOne, flow) => audit'[i].applied > audit[i].applied]_vars

(***************************************************************************)
(* Properties of the order of the turns in a sweep.                        *)
(***************************************************************************)
\* One player's turn made alone, on the player as it was before the sweep.
turn_alone(op, player, draw) ==
    IF op = "apply_offline_ticks"
    THEN offline_turn(worlds, zones, player, now, draw).player
    ELSE live_turn(worlds, zones, player, now, draw).player

\* C31: within a tick sweep a player's resulting state (cultivation,
\* tick_buffer, last_tick_timestamp, stats) depends only on that player's own
\* state before the sweep, on now and on its time-flow multiplier: it is what
\* the player's turn made alone gives, so the sweep leaves every player in the
\* same final state in whatever order it processes them.
C31_SweepOrderIndependent ==
    [][sweeps' # sweeps =>
          /\ \A i \in 1..Len(players), d \in TribulationDraws :
                players'[i] = turn_alone(tret'.op, players[i], d)
          /\ \A order \in Orders(Len(players)), d \in TribulationDraws :
                sweep_in_order(tret'.op, worlds, zones, players, now,
                               [k \in 1..Len(players) |-> d], order).players
                    = players']_vars

\* A sweep over two players with different states applied ticks to both.
C31_Witness ==
    /\ tret.op \in {"apply_offline_ticks", "apply_live_tick"}
    /\ Len(players) = 2
    /\ \A i \in 1..2 : tret.applied[i] # <<>>
    /\ audit[1].real_ticks # audit[2].real_ticks
    /\ players[1].cultivation # players[2].cultivation

(***************************************************************************)
(* Properties of the realm under add_exp.                                  *)
(***************************************************************************)
\* The notes breakthrough_realm returns: the outcome of a tribulation, or the
\* pinnacle message.
BreakthroughRealmNotes == {"tribulation overcome", "tribulation close call", "pinnacle"}

Position(c) == <<c.realm, c.layer, c.stage>>

\* C32: no add_exp call, from any state and with any tick count, changes the
\* realm or invokes breakthrough_realm (no tribulation is resolved): in the
\* first realm the progression stops at the plateau and in the last realm at
\* Peak; among add_exp and attempt_foundation_breakthrough the only call that
\* takes a character out of the first realm is a successful attempt.
C32_AddExpKeepsRealm ==
    [][/\ ret'.op = "add_exp" =>
              /\ cult'.realm = cult.realm
              /\ \A i \in 1..Len(ret'.notes) :
                    ret'.notes[i].kind \notin BreakthroughRealmNotes
              /\ is_qi_condensation_cap(cult) \/ is_maxed_out(cult)
                    => Position(cult') = Position(cult)
       /\ cult'.realm # cult.realm =>
              /\ ret'.op = "attempt"
              /\ ret'.ok
              /\ is_qi_condensation_cap(cult)
              /\ cult'.realm = FOUNDATION_ESTABLISHMENT]_vars

\* An add_exp call of the last realm went through several stages and stopped
\* at Peak with exp to spare.
C32_Witness ==
    /\ ret.op = "add_exp"
    /\ cult.realm = FOUNDATION_ESTABLISHMENT
    /\ is_maxed_out(cult)
    /\ Len(ret.notes) >= 2
    /\ cult.exp = required_exp(cult)

(***************************************************************************)
(* Properties of the statistics.                                           *)
(***************************************************************************)
\* C33: Player.apply_ticks never increments tribulations_survived: over every
\* sequence of tick applications and breakthrough attempts each player keeps
\* the value it had, because no note add_exp returns is the "Heavenly
\* tribulation overcome!" message, the only one holding both "tribulation" and
\* "overcome".
C33_TribulationsNeverCounted ==
    [][/\ \A i \in 1..Len(players) :
              players'[i].tribulations_survived = players[i].tribulations_survived
       /\ sweeps' # sweeps =>
              \A k \in 1..Len(tret'.logs) :
                  tret'.logs[k].note.kind \notin
                      {"tribulation overcome", "tribulation close call"}]_vars

\* A sweep applied ticks to a player that broke through to the last realm and
\* took it to Peak there: every stage-advance there is has been made.
C33_Witness ==
    /\ tret.op \in {"apply_offline_ticks", "apply_live_tick"}
    /\ \E i \in 1..Len(players) :
          /\ tret.applied[i] # <<>>
          /\ is_maxed_out(players[i].cultivation)
          /\ players[i].tribulations_survived = 0
          /\ \E k \in 1..Len(tret.logs) : tret.logs[k].player = players[i].user_id

(***************************************************************************)
(* Properties of the exp account of add_exp.                               *)
(***************************************************************************)
\* The threshold the i-th stage-advance of a call consumed: required_exp() at
\* the position the call had reached after i - 1 notes.
ThresholdBefore(c, notes, i) ==
    required_exp([c EXCEPT !.stage = StageAfter(c, notes, i - 1),
                           !.layer = IF c.realm = QI_CONDENSATION
                                     THEN LayerAfter(c, notes, i - 1) ELSE c.layer])

RECURSIVE ThresholdsConsumed(_, _, _)
ThresholdsConsumed(c, notes, i) ==
    IF i = 0 THEN 0
    ELSE ThresholdsConsumed(c, notes, i - 1) + ThresholdBefore(c, notes, i)

AtCap(c) == is_qi_condensation_cap(c) \/ is_maxed_out(c)

\* C34: exp is conserved below the caps: for an add_exp(ticks) call that
\* starts and ends in a non-cap state, the thresholds consumed by the
\* stage-advances of the call plus exp after the call equal exp before the
\* call plus cultivation_rate at the entry of the call times ticks; the rate
\* at entry is applied to all the ticks, also when a quality upgrade during
\* the call raises cultivation_rate.
C34_ExpConserved ==
    [][ret'.op = "add_exp" /\ ~AtCap(cult) /\ ~AtCap(cult') =>
          ThresholdsConsumed(cult, ret'.notes, Len(ret'.notes)) + cult'.exp
              = cult.exp + cult.cultivation_rate * ret'.arg]_vars

\* A call below the caps made several stage-advances, one of them into layer
\* 6 where the quality was refined and the rate raised, and left exp over.
C34_Witness ==
    /\ ret.op = "add_exp"
    /\ ret.arg > 0
    /\ ~AtCap(cult)
    /\ Len(ret.notes) >= 2
    /\ \E i \in 1..Len(ret.notes) : ret.notes[i].kind = "advanced, qi refined"
    /\ cult.cultivation_rate = 2
    /\ cult.exp > 0

(***************************************************************************)
(* Properties of the call that arrives at the plateau.                     *)
(***************************************************************************)
\* C35: in the add_exp(ticks) call during which a character reaches the
\* plateau from below, foundation_progress is increased by
\* min(1.0, ticks / FOUNDATION_FILL_TICKS), with the whole tick count of the
\* call, the ticks whose exp went into the stages before the plateau
\* included; a call of FOUNDATION_FILL_TICKS ticks or more that reaches the
\* plateau completes the bar at once.
C35_ArrivalFillsBar ==
    [][ret'.op = "add_exp" /\ ~is_qi_condensation_cap(cult)
                           /\ is_qi_condensation_cap(cult') =>
          /\ ExactSub(cult'.foundation_progress, cult.foundation_progress)
                = FMin(FOne, FDivNat(ret'.arg, FOUNDATION_FILL_TICKS))
          /\ ret'.arg >= FOUNDATION_FILL_TICKS =>
                /\ cult'.foundation_progress = FOne
                /\ HasNote(ret'.notes, "foundation bar complete")]_vars

\* A call of 1000 ticks spent its exp on the Late stage of layer 15, arrived
\* at the plateau and left the bar at 1000 / 1825.
C35_Witness ==
    /\ ret.op = "add_exp"
    /\ ret.arg = 1000
    /\ is_qi_condensation_cap(cult)
    /\ Len(ret.notes) >= 1
    /\ ret.notes[Len(ret.notes)].label = <<"Peak", max_qi_layers>>
    /\ ret.notes[Len(ret.notes)].kind = "advanced"
    /\ cult.foundation_progress = FDivNat(1000, FOUNDATION_FILL_TICKS)

(***************************************************************************)
(* Properties of the qi quality.                                           *)
(***************************************************************************)
UpToThin == {"Faint", "Thin"}

\* C36: in every state reachable from a fresh character, and in every state
\* just after loading (an object built by the constructor), layer >= 6
\* implies a qi_quality of Thin at least; and no engine operation raises
\* qi_quality above Thin: the only change of quality is from Faint to Thin,
\* so a character that starts at Faint has quality Faint or Thin and
\* cultivation_rate 1 or 2 ever after.
C36_QualityAtMostRefinedToThin ==
    /\ [](cult.layer >= 6 => ~is_lower_than(cult.qi_quality, "Thin"))
    /\ [][cult'.qi_quality # cult.qi_quality =>
             cult.qi_quality = "Faint" /\ cult'.qi_quality = "Thin"]_vars
    /\ [][cult.qi_quality \in UpToThin => cult'.qi_quality \in UpToThin]_vars
    /\ [](cult.qi_quality \in UpToThin => cult.cultivation_rate \in {1, 2})
    /\ [](cult.cultivation_rate = qi_per_day(cult.qi_quality))

\* One call took a character from below layer 6 to the plateau: refined once,
\* at layer 6, and not again in the nine layers that followed.
C36_Witness ==
    /\ ret.op = "add_exp"
    /\ is_qi_condensation_cap(cult)
    /\ cult.qi_quality = "Thin"
    /\ cult.cultivation_rate = 2
    /\ \E i \in 1..Len(ret.notes) :
          /\ ret.notes[i].kind = "advanced, qi refined"
          /\ Len(ret.notes) >= i + 45

(***************************************************************************)
(* Properties of the rollover loop.                                        *)
(***************************************************************************)
\* The stage-advances of a call: its notes but the closing "Foundation bar
\* complete", which update_foundation_progress appends after the loop.
RECURSIVE StageAdvances(_)
StageAdvances(notes) ==
    IF notes = <<>> THEN 0
    ELSE (IF Head(notes).kind = "foundation bar complete" THEN 0 ELSE 1)
         + StageAdvances(Tail(notes))

\* The place of (layer, stage) in the order of the positions of a realm, as
\* the call that began with c had reached it after its i-th note.
RankAfter(c, notes, i) ==
    (IF c.realm = QI_CONDENSATION THEN LayerAfter(c, notes, i) - 1 ELSE 0)
        * Len(STAGE_ORDER)
    + IndexOf(STAGE_ORDER, StageAfter(c, notes, i))

\* C37: the rollover loop of add_exp terminates for every state and every
\* tick count >= 0: each iteration moves (layer, stage) to a strictly later
\* position of the finite order of the realm's positions (15 * 5 at most) or
\* stops at a cap, so one call makes at most 74 stage-advances in the first
\* realm and at most 4 in the last.
C37_RolloverTerminates ==
    [][ret'.op = "add_exp" =>
          \E n \in {StageAdvances(ret'.notes)} :
              /\ n <= IF cult.realm = QI_CONDENSATION
                      THEN max_qi_layers * Len(STAGE_ORDER) - 1
                      ELSE Len(STAGE_ORDER) - 1
              /\ \A i \in 1..n :
                    \/ RankAfter(cult, ret'.notes, i) > RankAfter(cult, ret'.notes, i - 1)
                    \/ i = n /\ AtCap(cult')
              /\ n > 0 => RankAfter(cult, ret'.notes, n)
                             = RankAfter(cult', <<>>, 0)]_vars

\* One call made all the 74 stage-advances of the first realm.
C37_Witness ==
    /\ ret.op = "add_exp"
    /\ cult.realm = QI_CONDENSATION
    /\ StageAdvances(ret.notes) = max_qi_layers * Len(STAGE_ORDER) - 1
    /\ is_qi_condensation_cap(cult)

(***************************************************************************)
(* Progress under a tick loop that keeps running.                          *)
(***************************************************************************)
\* attempt_foundation_breakthrough was called at the plateau and failed.
FailedAttempt == ret.op = "attempt" /\ ret.drew /\ ~ret.ok

\* C38: progress is live.  From a fresh character, add_exp(t) with t >= 1
\* called again and again reaches the plateau, and from the plateau, with no
\* attempt in between, foundation_progress = 1.0; an attempt made with the
\* bar at 1.0 succeeds; from the last realm the calls reach the final cap
\* (last realm, Peak); and after a failed attempt they return the character
\* to the plateau.
C38_ProgressIsLive ==
    /\ <>is_qi_condensation_cap(cult)
    /\ is_qi_condensation_cap(cult)
          ~> (\/ is_qi_condensation_cap(cult) /\ cult.foundation_progress = FOne
              \/ ret.op = "attempt")
    /\ [][/\ ret'.op = "attempt"
          /\ is_qi_condensation_cap(cult)
          /\ cult.foundation_progress = FOne
          => ret'.ok /\ cult'.realm = FOUNDATION_ESTABLISHMENT]_vars
    /\ cult.realm = FOUNDATION_ESTABLISHMENT ~> is_maxed_out(cult)
    /\ FailedAttempt ~> is_qi_condensation_cap(cult)

\* The character was sent back by a failed attempt, returned to the plateau,
\* filled the bar part by part, broke through and reached the final cap.
C38_Witness ==
    /\ ret.op = "add_exp"
    /\ ret.arg = 1000
    /\ is_maxed_out(cult)
    /\ cult.layer = 1
    /\ cult.exp = required_exp(cult)

(***************************************************************************)
(* Properties of the order of the positions.                               *)
(***************************************************************************)
\* The place of (realm, layer, stage) in the lexicographic order.
PositionRank(c) ==
    (IndexOf(REALM_ORDER, c.realm) * max_qi_layers + (c.layer - 1)) * Len(STAGE_ORDER)
    + IndexOf(STAGE_ORDER, c.stage)

\* C39: under add_exp the position (realm, layer, stage) never moves back and
\* never skips: each stage-advance of a call moves it to the immediate
\* successor in the lexicographic order and appends exactly one note, the
\* notes standing in the order of the advances; the only operation that
\* moves a character back is a failed attempt_foundation_breakthrough, by
\* exactly one stage (Peak to Late at layer 15).
C39_PositionStepsToSuccessor ==
    /\ [][ret'.op = "add_exp" =>
             /\ cult'.realm = cult.realm
             /\ PositionRank(cult') >= PositionRank(cult)
             /\ PositionRank(cult') - PositionRank(cult) = StageAdvances(ret'.notes)
             /\ \A i \in 1..StageAdvances(ret'.notes) :
                   RankAfter(cult, ret'.notes, i)
                       = RankAfter(cult, ret'.notes, i - 1) + 1]_vars
    /\ [][PositionRank(cult') < PositionRank(cult) =>
             /\ ret'.op = "attempt"
             /\ ~ret'.ok
             /\ is_qi_condensation_cap(cult)
             /\ PositionRank(cult') = PositionRank(cult) - 1
             /\ cult'.layer = max_qi_layers /\ cult'.stage = "Late"]_vars

====
